---- MODULE Spec2Model ----
(***************************************************************************)
(* A model of boltegg/xlsx: the typed Unmarshal of a sheet into a slice of *)
(* records (unmarshal.go, first revision of the file), the coercion of one *)
(* cell (convertCell and its helpers) and the sheet writer (Write).        *)
(*                                                                         *)
(* Text is a sequence of one-character strings, so that trimming,          *)
(* splitting and digit shifting are computed the way the code computes     *)
(* them.  An integer value is held as its canonical decimal numeral (an    *)
(* optional "-" and digits without leading zero), which keeps the 64-bit   *)
(* range of the code exact.                                                *)
(***************************************************************************)
EXTENDS Integers, Sequences, FiniteSets, TLC

-----------------------------------------------------------------------------
(* Text helpers (package strings).                                         *)

Chars(s) == [i \in 1..Len(s) |-> SubSeq(s, i, i)]

DigitSeq == Chars("0123456789")
DigitSet == {DigitSeq[i] : i \in 1..10}
DigitVal(c) == (CHOOSE i \in 1..10 : DigitSeq[i] = c) - 1
DigitChar(n) == DigitSeq[n + 1]

SpaceSet == {" "}

RECURSIVE TrimLeftSet(_, _)
TrimLeftSet(s, cut) ==
    IF s # <<>> /\ Head(s) \in cut THEN TrimLeftSet(Tail(s), cut) ELSE s

RECURSIVE TrimRightSet(_, _)
TrimRightSet(s, cut) ==
    IF s # <<>> /\ s[Len(s)] \in cut
    THEN TrimRightSet(SubSeq(s, 1, Len(s) - 1), cut)
    ELSE s

TrimSpace(s) == TrimRightSet(TrimLeftSet(s, SpaceSet), SpaceSet)

\* strings.IndexAny / strings.IndexByte: zero-based index of the first
\* character of s that is in set, -1 when there is none.
IndexAny(s, set) ==
    IF \E i \in 1..Len(s) : s[i] \in set
    THEN (CHOOSE i \in 1..Len(s) :
              s[i] \in set /\ \A j \in 1..(i - 1) : s[j] \notin set) - 1
    ELSE -1

Contains(s, c) == \E i \in 1..Len(s) : s[i] = c

HasPrefix(s, c) == s # <<>> /\ Head(s) = c

RECURSIVE Filter(_, _)
Filter(s, keep) ==
    IF s = <<>> THEN <<>>
    ELSE (IF Head(s) \in keep THEN <<Head(s)>> ELSE <<>>) \o Filter(Tail(s), keep)

RECURSIVE ReplaceAll(_, _, _)
ReplaceAll(s, old, new) ==
    IF s = <<>> THEN <<>>
    ELSE (IF Head(s) = old THEN new ELSE <<Head(s)>>) \o ReplaceAll(Tail(s), old, new)

Count(s, c) == Cardinality({i \in 1..Len(s) : s[i] = c})

Repeat(c, n) == [i \in 1..n |-> c]

\* strings.ToLower on the letters of the model's alphabet; "U+0414" and
\* "U+0410" stand for the Cyrillic capitals, "U+0434" and "U+0430" for the
\* small letters.
LowerOf(c) ==
    CASE c = "Y" -> "y" [] c = "E" -> "e" [] c = "S" -> "s" [] c = "T" -> "t"
      [] c = "R" -> "r" [] c = "U" -> "u" [] c = "O" -> "o" [] c = "N" -> "n"
      [] c = "I" -> "i" [] c = "F" -> "f" [] c = "A" -> "a" [] c = "L" -> "l"
      [] c = "U+0414" -> "U+0434" [] c = "U+0410" -> "U+0430"
      [] OTHER -> c

ToLower(s) == [i \in 1..Len(s) |-> LowerOf(s[i])]

EqualFold(s, t) == ToLower(s) = ToLower(t)

-----------------------------------------------------------------------------
(* Decimal numerals and package strconv.                                   *)

Zero == <<"0">>

\* isAllDigits reports whether s contains only ASCII digits 0-9.
isAllDigits(s) == s # <<>> /\ \A i \in 1..Len(s) : s[i] \in DigitSet

\* strings.TrimLeft(x, "0") with "0" kept for an all-zero text.
StripZeros(s) ==
    LET t == TrimLeftSet(s, {"0"}) IN IF t = <<>> THEN Zero ELSE t

\* a <= b for two digit texts without leading zeros.
RECURSIVE LexLE(_, _)
LexLE(a, b) ==
    IF a = <<>> THEN TRUE
    ELSE IF DigitVal(Head(a)) # DigitVal(Head(b))
         THEN DigitVal(Head(a)) < DigitVal(Head(b))
         ELSE LexLE(Tail(a), Tail(b))

MagLE(a, b) == Len(a) < Len(b) \/ (Len(a) = Len(b) /\ LexLE(a, b))

MaxInt64Mag == Chars("9223372036854775807")
MinInt64Mag == Chars("9223372036854775808")
MaxUint64Mag == Chars("18446744073709551615")

NoNum == [ok |-> FALSE, val |-> Zero]

\* strconv.ParseInt(s, 10, 64): an optional sign, then digits only; a value
\* outside the int64 range is an error.
ParseInt64(s) ==
    LET signed == s # <<>> /\ Head(s) \in {"+", "-"}
        neg == s # <<>> /\ Head(s) = "-"
        body == IF signed THEN Tail(s) ELSE s
        mag == StripZeros(body)
    IN  IF ~isAllDigits(body) THEN NoNum
        ELSE IF neg
             THEN IF MagLE(mag, MinInt64Mag)
                  THEN [ok |-> TRUE, val |-> IF mag = Zero THEN Zero ELSE <<"-">> \o mag]
                  ELSE NoNum
             ELSE IF MagLE(mag, MaxInt64Mag)
                  THEN [ok |-> TRUE, val |-> mag]
                  ELSE NoNum

\* strconv.ParseUint(s, 10, 64): digits only, no sign.
ParseUint64(s) ==
    IF ~isAllDigits(s) THEN NoNum
    ELSE IF MagLE(StripZeros(s), MaxUint64Mag)
         THEN [ok |-> TRUE, val |-> StripZeros(s)]
         ELSE NoNum

\* The machine integer of a numeral (used for exponents and counts).
RECURSIVE MagToInt(_, _)
MagToInt(s, acc) ==
    IF s = <<>> THEN acc ELSE MagToInt(Tail(s), acc * 10 + DigitVal(Head(s)))

NumToInt(n) == IF HasPrefix(n, "-") THEN 0 - MagToInt(Tail(n), 0) ELSE MagToInt(n, 0)

RECURSIVE NatToMag(_)
NatToMag(n) ==
    IF n < 10 THEN <<DigitChar(n)>> ELSE NatToMag(n \div 10) \o <<DigitChar(n % 10)>>

IntToNum(n) == IF n < 0 THEN <<"-">> \o NatToMag(0 - n) ELSE NatToMag(n)

\* strconv.Atoi: ParseInt(s, 10, 0) on a 64-bit build.
Atoi(s) ==
    LET result(p) == [ok |-> p.ok, val |-> IF p.ok THEN NumToInt(p.val) ELSE 0]
    IN  result(ParseInt64(s))

-----------------------------------------------------------------------------
(* Exact integers from raw numeric text.                                   *)

NoText == [ok |-> FALSE, val |-> <<>>]

\* The mutant of fracLenOf: the digits after the decimal point are forgotten.
fracLenOf_zero(s3) == 0

\* fracLen: the number of characters after the first decimal point.
fracLenOf(s3) ==
    LET dot == IndexAny(s3, {"."}) IN IF dot # -1 THEN Len(s3) - dot - 1 ELSE 0

\* toIntegerDecimalString converts a numeric string that may contain a
\* decimal point and/or scientific notation into a base-10 integer string,
\* if and only if the value represents an exact integer.
toIntegerDecimalString(s0) ==
    LET \* remove leading zeros of the shifted digits; no sign for zero
        finish(sign, shifted) ==
            LET final == IF shifted # Zero THEN StripZeros(shifted) ELSE shifted
            IN  [ok |-> TRUE,
                 val |-> IF sign = <<"-">> /\ final = Zero THEN final ELSE sign \o final]
        \* apply the exponent shift: a negative one needs that many zeros at
        \* the end of the digits
        shift(sign, intPart, totalExp) ==
            IF totalExp < 0
            THEN IF intPart = Zero THEN [ok |-> TRUE, val |-> sign \o Zero]
                 ELSE IF ~(/\ Len(intPart) >= 0 - totalExp
                           /\ \A i \in 0..(0 - totalExp - 1) : intPart[Len(intPart) - i] = "0")
                 THEN NoText
                 ELSE IF Len(intPart) + totalExp = 0 THEN finish(sign, Zero)
                 ELSE finish(sign, SubSeq(intPart, 1, Len(intPart) + totalExp))
            ELSE IF totalExp > 0 THEN finish(sign, intPart \o Repeat("0", totalExp))
            ELSE finish(sign, intPart)
        \* split decimal point
        joined(s3) ==
            LET dot == IndexAny(s3, {"."})
            IN  IF dot # -1 THEN SubSeq(s3, 1, dot) \o SubSeq(s3, dot + 2, Len(s3)) ELSE s3
        mantissa(sign, s3, e) ==
            IF ~e.ok THEN NoText
            ELSE shift(sign, StripZeros(joined(s3)), e.val - fracLenOf(s3))
        \* split exponent if present
        exponent(sign, s2, idx) ==
            IF idx # -1
            THEN mantissa(sign, SubSeq(s2, 1, idx), Atoi(SubSeq(s2, idx + 2, Len(s2))))
            ELSE mantissa(sign, s2, [ok |-> TRUE, val |-> 0])
        unsigned(sign, s2) == exponent(sign, s2, IndexAny(s2, {"e", "E"}))
        signed(s1) ==
            IF s1 = <<>> THEN NoText
            ELSE unsigned(IF HasPrefix(s1, "-") THEN <<"-">> ELSE <<>>,
                          IF Head(s1) \in {"+", "-"} THEN Tail(s1) ELSE s1)
    IN  signed(TrimSpace(s0))

\* parseRawNumberToInt64 attempts to parse an exact integer from a raw
\* numeric string, without float64.
parseRawNumberToInt64(s0) ==
    LET parse(s, is) ==
            IF s = <<>> THEN NoNum
            ELSE IF is.ok THEN ParseInt64(is.val) ELSE NoNum
    IN  parse(TrimSpace(s0), toIntegerDecimalString(TrimSpace(s0)))

\* parseRawNumberToUint64 is the unsigned variant.
parseRawNumberToUint64(s0) ==
    LET parse(s, is) ==
            IF s = <<>> THEN NoNum
            ELSE IF HasPrefix(s, "-") THEN NoNum
            ELSE IF is.ok THEN ParseUint64(is.val) ELSE NoNum
    IN  parse(TrimSpace(s0), toIntegerDecimalString(TrimSpace(s0)))

\* The number of consecutive digits of s from position i (one-based).
RECURSIVE SpanDigits(_, _)
SpanDigits(s, i) ==
    IF i <= Len(s) /\ s[i] \in DigitSet THEN 1 + SpanDigits(s, i + 1) ELSE 0

\* isNumericLike reports whether s looks like a numeric literal possibly in
\* scientific notation: optional sign, digits with optional single dot,
\* optional exponent.
isNumericLike(s) ==
    LET \* after the exponent: everything must have been consumed
        atEnd(i6) == i6 = Len(s) + 1
        expDigits(i3, i4, i5, n) ==
            i4 <= Len(s) /\ i5 <= Len(s) /\ n # 0 /\ atEnd(i5 + n)
        expSign(i3, i4) ==
            LET i5 == IF i4 <= Len(s) /\ s[i4] \in {"+", "-"} THEN i4 + 1 ELSE i4
            IN  expDigits(i3, i4, i5, SpanDigits(s, i5))
        \* exponent
        exponent(i3) ==
            IF i3 <= Len(s) /\ s[i3] \in {"e", "E"} THEN expSign(i3, i3 + 1) ELSE atEnd(i3)
        \* fraction: "." alone is not a number
        fraction(digits, i2, frac) == ~(digits = 0 /\ frac = 0) /\ exponent(i2 + 1 + frac)
        \* integer part
        integer(i1, digits) ==
            IF i1 + digits <= Len(s) /\ s[i1 + digits] = "."
            THEN fraction(digits, i1 + digits, SpanDigits(s, i1 + digits + 1))
            ELSE digits # 0 /\ exponent(i1 + digits)
        start(i1) == i1 <= Len(s) /\ integer(i1, SpanDigits(s, i1))
    IN  IF s = <<>> THEN FALSE
        ELSE start(IF s[1] \in {"+", "-"} THEN 2 ELSE 1)

-----------------------------------------------------------------------------
(* Floating point.  A float64 is held as the decimal sign * mant * 10^exp  *)
(* with mant free of trailing zeros; within the model's texts (at most 15  *)
(* significant digits) that decimal names exactly one float64.             *)

FloatZero == [neg |-> FALSE, mant |-> Zero, exp |-> 0]

RECURSIVE NormFloat(_, _, _)
NormFloat(neg, mant, exp) ==
    LET m == StripZeros(mant)
    IN  IF m = Zero THEN FloatZero
        ELSE IF m[Len(m)] = "0" THEN NormFloat(neg, SubSeq(m, 1, Len(m) - 1), exp + 1)
        ELSE [neg |-> neg, mant |-> m, exp |-> exp]

NoFloat == [ok |-> FALSE, val |-> FloatZero]

\* strconv.ParseFloat(s, 64) on decimal literals: optional sign, digits with
\* an optional point (at least one digit), optional exponent.  A value of
\* 1e309 or more is a range error.
ParseFloat64(s) ==
    LET value(f) ==
            IF f.mant # Zero /\ Len(f.mant) + f.exp > 309 THEN NoFloat
            ELSE [ok |-> TRUE, val |-> f]
        digits(ip, fp, x, e) ==
            IF ~(/\ ip \o fp # <<>>
                 /\ \A i \in 1..Len(ip) : ip[i] \in DigitSet
                 /\ \A i \in 1..Len(fp) : fp[i] \in DigitSet
                 /\ isAllDigits(IF x # <<>> /\ Head(x) \in {"+", "-"} THEN Tail(x) ELSE x))
               \/ ~e.ok
            THEN NoFloat
            ELSE value(NormFloat(HasPrefix(s, "-"), ip \o fp, e.val - Len(fp)))
        point(m, x, dot, e) ==
            IF dot # -1
            THEN digits(SubSeq(m, 1, dot), SubSeq(m, dot + 2, Len(m)), x, e)
            ELSE digits(m, <<>>, x, e)
        mantissa(m, x) == point(m, x, IndexAny(m, {"."}), Atoi(x))
        exponent(body, idx) ==
            IF idx # -1
            THEN mantissa(SubSeq(body, 1, idx), SubSeq(body, idx + 2, Len(body)))
            ELSE mantissa(body, Zero)
        unsigned(body) == exponent(body, IndexAny(body, {"e", "E"}))
    IN  unsigned(IF s # <<>> /\ Head(s) \in {"+", "-"} THEN Tail(s) ELSE s)

\* int64(f): truncation toward zero; a value outside the int64 range gives
\* the minimum int64 (amd64).
TruncToInt64(f) ==
    LET mag == IF f.exp >= 0 THEN f.mant \o Repeat("0", f.exp)
               ELSE IF Len(f.mant) + f.exp <= 0 THEN Zero
               ELSE SubSeq(f.mant, 1, Len(f.mant) + f.exp)
    IN  IF mag = Zero THEN Zero
        ELSE IF f.neg
             THEN (IF MagLE(mag, MinInt64Mag) THEN <<"-">> \o mag ELSE <<"-">> \o MinInt64Mag)
             ELSE (IF MagLE(mag, MaxInt64Mag) THEN mag ELSE <<"-">> \o MinInt64Mag)

-----------------------------------------------------------------------------
(* Parsing of formatted text.                                              *)

\* The mutant of boolTokens: "on" is not recognised.
boolTokens_noOn ==
    {Chars("true"), Chars("1"), Chars("yes"), Chars("y"),
     <<"U+0434", "U+0430">>, Chars("si")}

\* The tokens parseBool takes for true ("U+0434" "U+0430" is the Cyrillic da).
boolTokens ==
    {Chars("true"), Chars("1"), Chars("yes"), Chars("y"),
     <<"U+0434", "U+0430">>, Chars("si"), Chars("on")}

parseBool(s) == ToLower(TrimSpace(s)) \in boolTokens

\* cleanNumber keeps digits and minus only, and only the first minus when
\* there are several.
cleanNumber(s0) ==
    LET firstMinus(out) ==
            IF Count(out, "-") > 1
            THEN <<"-">> \o ReplaceAll(IF HasPrefix(out, "-") THEN Tail(out) ELSE out,
                                      "-", <<>>)
            ELSE out
        kept(s) == IF s = <<>> THEN <<>> ELSE firstMinus(Filter(s, DigitSet \cup {"-"}))
    IN  kept(TrimSpace(s0))

\* The mutant of parseFloat: every comma is removed, also when the text has
\* no dot.
parseFloat_commasRemoved(s0) ==
    LET kept(s) == Filter(s, DigitSet \cup {".", ",", "-"})
        parse(s, cleaned, f) ==
            IF s = <<>> THEN NoFloat
            ELSE IF cleaned = <<>> \/ cleaned = <<"-">> THEN NoFloat
            ELSE f
    IN  parse(TrimSpace(s0), kept(TrimSpace(s0)),
              ParseFloat64(ReplaceAll(kept(TrimSpace(s0)), ",", <<>>)))

\* parseFloat keeps digits, separators and minus; with both comma and dot
\* the commas are removed, with only commas each becomes a dot.
parseFloat(s0) ==
    LET kept(s) == Filter(s, DigitSet \cup {".", ",", "-"})
        separators(cleaned) ==
            IF Contains(cleaned, ",") /\ Contains(cleaned, ".")
            THEN ReplaceAll(cleaned, ",", <<>>)
            ELSE IF Contains(cleaned, ",") /\ ~Contains(cleaned, ".")
            THEN ReplaceAll(cleaned, ",", <<".">>)
            ELSE cleaned
        parse(s, cleaned, f) ==
            IF s = <<>> THEN NoFloat
            ELSE IF cleaned = <<>> \/ cleaned = <<"-">> THEN NoFloat
            ELSE f
    IN  parse(TrimSpace(s0), kept(TrimSpace(s0)),
              ParseFloat64(separators(kept(TrimSpace(s0)))))

\* parseInt: the cleaned text as an integer, else the text as a float cast
\* to int64.
parseInt(s) ==
    LET parse(cleaned, i, f) ==
            IF cleaned = <<>> \/ cleaned = <<"-">> THEN NoNum
            ELSE IF i.ok THEN i
            ELSE IF f.ok THEN [ok |-> TRUE, val |-> TruncToInt64(f.val)]
            ELSE NoNum
    IN  parse(cleanNumber(s), ParseInt64(cleanNumber(s)), parseFloat(s))

-----------------------------------------------------------------------------
(* Timestamps (package time and the codec's date serials).                 *)

\* A location is the text of its name; NoLoc is the nil *time.Location.
NoLoc == <<>>

UTC == Chars("UTC")

ZeroTime == [y |-> 1, mo |-> 1, d |-> 1, h |-> 0, mi |-> 0, s |-> 0, loc |-> UTC]

NoTime == [ok |-> FALSE, val |-> ZeroTime]

IsLeap(y) == (y % 4 = 0 /\ y % 100 # 0) \/ y % 400 = 0

DaysIn(y, mo) ==
    IF mo = 2 THEN (IF IsLeap(y) THEN 29 ELSE 28)
    ELSE IF mo \in {4, 6, 9, 11} THEN 30 ELSE 31

\* The elements of a layout (time.nextStdChunk) among those the layouts of
\* this package use; any other character is a literal.
LayoutElems == <<Chars("2006"), Chars("01"), Chars("02"), Chars("15"),
                 Chars("04"), Chars("05"), Chars("Z07:00")>>

IsPrefixAt(s, i, pre) ==
    i + Len(pre) - 1 <= Len(s) /\ SubSeq(s, i, i + Len(pre) - 1) = pre

ElemAt(layout, i) ==
    IF \E k \in 1..Len(LayoutElems) : IsPrefixAt(layout, i, LayoutElems[k])
    THEN LayoutElems[CHOOSE k \in 1..Len(LayoutElems) : IsPrefixAt(layout, i, LayoutElems[k])]
    ELSE <<layout[i]>>

\* The number read from n digits of s at position j, -1 when they are not
\* all digits.
NumAt(s, j, n) ==
    IF j + n - 1 <= Len(s) /\ \A q \in j..(j + n - 1) : s[q] \in DigitSet
    THEN MagToInt(SubSeq(s, j, j + n - 1), 0)
    ELSE -1

\* time.Parse, one step: layout from position i against the text from
\* position j, with the fields read so far in acc.
RECURSIVE ParseLayoutFrom(_, _, _, _, _)
ParseLayoutFrom(layout, i, s, j, acc) ==
    LET next(ni, nj, acc2) == ParseLayoutFrom(layout, ni, s, nj, acc2)
        number(ok, ni, nj, acc2) == IF ok THEN next(ni, nj, acc2) ELSE NoTime
        step(el, ni, n4, n2) ==
            IF el = Chars("2006") THEN number(n4 >= 0, ni, j + 4, [acc EXCEPT !.y = n4])
            ELSE IF el = Chars("01")
            THEN number(n2 >= 1 /\ n2 <= 12, ni, j + 2, [acc EXCEPT !.mo = n2])
            ELSE IF el = Chars("02")
            THEN number(n2 >= 1 /\ n2 <= 31, ni, j + 2, [acc EXCEPT !.d = n2])
            ELSE IF el = Chars("15")
            THEN number(n2 >= 0 /\ n2 <= 23, ni, j + 2, [acc EXCEPT !.h = n2])
            ELSE IF el = Chars("04")
            THEN number(n2 >= 0 /\ n2 <= 59, ni, j + 2, [acc EXCEPT !.mi = n2])
            ELSE IF el = Chars("05")
            THEN number(n2 >= 0 /\ n2 <= 59, ni, j + 2, [acc EXCEPT !.s = n2])
            ELSE IF el = Chars("Z07:00")
            THEN IF j <= Len(s) /\ s[j] = "Z"
                 THEN number(TRUE, ni, j + 1, [acc EXCEPT !.loc = UTC])
                 ELSE number(/\ j + 5 <= Len(s) /\ s[j] \in {"+", "-"}
                             /\ NumAt(s, j + 1, 2) >= 0
                             /\ s[j + 3] = ":" /\ NumAt(s, j + 4, 2) >= 0,
                             ni, j + 6, [acc EXCEPT !.loc = SubSeq(s, j, j + 5)])
            ELSE number(j <= Len(s) /\ s[j] = el[1], ni, j + 1, acc)
        element(el) == step(el, i + Len(el), NumAt(s, j, 4), NumAt(s, j, 2))
    IN  IF i > Len(layout)
        THEN IF j = Len(s) + 1 /\ acc.d <= DaysIn(acc.y, acc.mo)
             THEN [ok |-> TRUE, val |-> acc]
             ELSE NoTime
        ELSE element(ElemAt(layout, i))

\* time.ParseInLocation(layout, s, loc); time.Parse is the same in UTC.
ParseInLocation(layout, s, loc) ==
    ParseLayoutFrom(layout, 1, s, 1, [ZeroTime EXCEPT !.loc = loc])

TimeParse(layout, s) == ParseInLocation(layout, s, UTC)

RFC3339 == Chars("2006-01-02T15:04:05Z07:00")

\* The mutant of commonFormats: the two slash formats in the other order.
commonFormats_swapped ==
    <<Chars("2006-01-02 15:04:05"), RFC3339, Chars("2006-01-02"), Chars("02-01-2006"),
      Chars("02.01.2006"), Chars("01/02/2006"), Chars("02/01/2006")>>

commonFormats ==
    <<Chars("2006-01-02 15:04:05"), RFC3339, Chars("2006-01-02"), Chars("02-01-2006"),
      Chars("02.01.2006"), Chars("02/01/2006"), Chars("01/02/2006")>>

\* One format tried the way parseTime tries it: in loc when there is one,
\* then in UTC.
tryFormat(f, s, loc) ==
    LET either(a, b) == IF loc # NoLoc /\ a.ok THEN a ELSE b
    IN  either(ParseInLocation(f, s, loc), TimeParse(f, s))

RECURSIVE tryFormats(_, _, _, _)
tryFormats(fs, k, s, loc) ==
    LET first(a) == IF a.ok THEN a ELSE tryFormats(fs, k + 1, s, loc)
    IN  IF k > Len(fs) THEN NoTime ELSE first(tryFormat(fs[k], s, loc))

parseTime(s, fmtStr, loc) ==
    LET formats == IF fmtStr # <<>> THEN <<fmtStr>> \o commonFormats ELSE commonFormats
    IN  IF s = <<>> THEN NoTime ELSE tryFormats(formats, 1, s, loc)

\* excelize.ExcelDateToTime for a serial of the 1900 date system from
\* 1900-03-01 on (serial 61), or the same count 1462 days later in the 1904
\* system: the civil date of the day count and the time of day of the
\* fraction.  A negative serial is an error.
ExcelDateToTime(f, use1904) ==
    LET civil(secs, doy, mp, yoe, era) ==
            LET d == doy - (153 * mp + 2) \div 5 + 1
                mo == IF mp < 10 THEN mp + 3 ELSE mp - 9
            IN  [ok |-> TRUE,
                 val |-> [y |-> yoe + era * 400 + (IF mo <= 2 THEN 1 ELSE 0),
                          mo |-> mo, d |-> d, h |-> secs \div 3600,
                          mi |-> (secs % 3600) \div 60, s |-> secs % 60, loc |-> UTC]]
        ofDay(secs, doy, yoe, era) == civil(secs, doy, (5 * doy + 2) \div 153, yoe, era)
        ofYear(secs, doe, yoe, era) ==
            ofDay(secs, doe - (365 * yoe + yoe \div 4 - yoe \div 100), yoe, era)
        ofEra(secs, doe, era) ==
            ofYear(secs, doe,
                   (doe - doe \div 1460 + doe \div 36524 - doe \div 146096) \div 365, era)
        days(secs, z) == ofEra(secs, z - (z \div 146097) * 146097, z \div 146097)
        split(whole, fracDigits) ==
            days(IF fracDigits = <<>> THEN 0
                 ELSE (MagToInt(fracDigits, 0) * 86400) \div (10 ^ Len(fracDigits)),
                 whole - 25569 + (IF use1904 THEN 1462 ELSE 0) + 719468)
        cut == Len(f.mant) + f.exp
    IN  IF f.neg THEN NoTime
        ELSE IF f.exp >= 0 THEN split(MagToInt(f.mant, 0) * (10 ^ f.exp), <<>>)
        ELSE IF cut <= 0 THEN split(0, Repeat("0", 0 - cut) \o f.mant)
        ELSE split(MagToInt(SubSeq(f.mant, 1, cut), 0), SubSeq(f.mant, cut + 1, Len(f.mant)))

-----------------------------------------------------------------------------
(* Typed values.  A value carries the name of its Go type, as a            *)
(* reflect.Value does.                                                     *)

Val(t, v) == [t |-> t, v |-> v]

NilPtr == [t |-> "nil", v |-> 0]

NoVal == [ok |-> FALSE, val |-> NilPtr]

SomeVal(t, v) == [ok |-> TRUE, val |-> Val(t, v)]

\* n modulo 2^16 and n modulo 2^32 (as two 16-bit halves) for the digits of
\* a magnitude.
RECURSIVE MagMod(_, _, _)
MagMod(s, m, acc) ==
    IF s = <<>> THEN acc ELSE MagMod(Tail(s), m, (acc * 10 + DigitVal(Head(s))) % m)

RECURSIVE MagHalves(_, _, _)
MagHalves(s, hi, lo) ==
    IF s = <<>> THEN <<hi, lo>>
    ELSE LET l == lo * 10 + DigitVal(Head(s))
         IN  MagHalves(Tail(s), (hi * 10 + l \div 65536) % 65536, l % 65536)

IsNeg(n) == HasPrefix(n, "-")

MagOf(n) == IF IsNeg(n) THEN Tail(n) ELSE n

\* The two's complement residue of numeral n in bits (8 or 16) bits.
Residue(n, bits) ==
    LET m == 2 ^ bits
        r == MagMod(MagOf(n), m, 0)
    IN  IF IsNeg(n) THEN (m - r) % m ELSE r

\* Two's complement negation of a 32-bit value held as halves <<hi, lo>>.
NegHalves(p) ==
    IF p = <<0, 0>> THEN p
    ELSE <<(65535 - p[1] + (IF p[2] = 0 THEN 1 ELSE 0)) % 65536, (65536 - p[2]) % 65536>>

\* The residue of numeral n in 32 bits, as halves.
Residue32(n) ==
    LET signed(p) == IF IsNeg(n) THEN NegHalves(p) ELSE p
    IN  signed(MagHalves(MagOf(n), 0, 0))

\* The digits of hi * 65536 + lo.
HalvesToMag(p) ==
    LET q == p[1] * 6553 + (p[1] * 6 + p[2]) \div 10
        r == (p[1] * 6 + p[2]) % 10
    IN  StripZeros(NatToMag(q) \o <<DigitChar(r)>>)

\* int8(i64), int16(i64), int32(i64): the low bits, read as signed.
WrapSigned(n, bits) ==
    LET wide(p) ==
            IF p[1] >= 32768 THEN <<"-">> \o HalvesToMag(NegHalves(p)) ELSE HalvesToMag(p)
        narrow(r) == IntToNum(IF r >= 2 ^ (bits - 1) THEN r - 2 ^ bits ELSE r)
    IN  IF bits = 32 THEN wide(Residue32(n)) ELSE narrow(Residue(n, bits))

\* uint8(u64), uint16(u64), uint32(u64): the low bits.
WrapUnsigned(n, bits) ==
    IF bits = 32 THEN HalvesToMag(Residue32(n)) ELSE IntToNum(Residue(n, bits))

IntKinds == {"Int", "Int8", "Int16", "Int32", "Int64"}
UintKinds == {"Uint", "Uint8", "Uint16", "Uint32", "Uint64"}
FloatKinds == {"Float32", "Float64"}

\* The predeclared type convertCell produces for a kind.
TypeOfKind(kind) ==
    CASE kind = "String" -> "string" [] kind = "Bool" -> "bool"
      [] kind = "Int" -> "int" [] kind = "Int8" -> "int8" [] kind = "Int16" -> "int16"
      [] kind = "Int32" -> "int32" [] kind = "Int64" -> "int64"
      [] kind = "Uint" -> "uint" [] kind = "Uint8" -> "uint8" [] kind = "Uint16" -> "uint16"
      [] kind = "Uint32" -> "uint32" [] kind = "Uint64" -> "uint64"
      [] kind = "Float32" -> "float32" [] kind = "Float64" -> "float64"
      [] kind = "Struct" -> "time.Time"
      [] OTHER -> "none"

-----------------------------------------------------------------------------
(* convertCell converts a cell's raw and formatted value into a value      *)
(* suitable for assigning to a destination field of kind destKind.         *)

\* int(i64), int8(i64), ...: int is 64 bits wide (amd64, arm64).
narrowInt(i64, destKind) ==
    IF destKind \in {"Int8", "Int16", "Int32"}
    THEN WrapSigned(i64, CASE destKind = "Int8" -> 8 [] destKind = "Int16" -> 16
                           [] OTHER -> 32)
    ELSE i64

narrowUint(u64, destKind) ==
    IF destKind \in {"Uint8", "Uint16", "Uint32"}
    THEN WrapUnsigned(u64, CASE destKind = "Uint8" -> 8 [] destKind = "Uint16" -> 16
                             [] OTHER -> 32)
    ELSE u64

\* The mutant of keepVerbatim: only the leading plus is preserved.
keepVerbatim_plusOnly(fmTrim) == fmTrim # <<>> /\ HasPrefix(fmTrim, "+")

\* The formatted texts a string field takes as they are: a leading '+', or
\* a leading zero followed by digits only.
keepVerbatim(fmTrim) ==
    /\ fmTrim # <<>>
    /\ \/ HasPrefix(fmTrim, "+")
       \/ (Len(fmTrim) > 1 /\ fmTrim[1] = "0" /\ isAllDigits(fmTrim))

convertString(raw, formatted) ==
    LET text(s) == SomeVal("string", s)
        \* fallback to formatted numeric/scientific normalization; as a last
        \* resort, return formatted as-is
        fromFormatted(numeric, fdec) ==
            IF numeric /\ fdec.ok THEN text(fdec.val) ELSE text(formatted)
        \* prefer raw if present and looks numeric/scientific
        fromRaw(r, fmTrim, dec) ==
            IF r # <<>> /\ isNumericLike(r)
            THEN (IF dec.ok THEN text(dec.val) ELSE text(r))
            ELSE fromFormatted(fmTrim # <<>> /\ isNumericLike(fmTrim),
                               toIntegerDecimalString(fmTrim))
        rules(fmTrim, r) ==
            IF keepVerbatim(fmTrim) THEN text(formatted)
            ELSE fromRaw(r, fmTrim, toIntegerDecimalString(r))
    IN  rules(TrimSpace(formatted), TrimSpace(raw))

convertBool(raw, formatted, ctype) ==
    IF ctype = "Bool"
    THEN SomeVal("bool", raw = <<"1">> \/ EqualFold(formatted, Chars("true")))
    ELSE SomeVal("bool", parseBool(formatted))

\* The mutant of convertInt: the formatted text is tried first.
convertInt_formattedFirst(raw, formatted, destKind) ==
    LET typed(got) == SomeVal(TypeOfKind(destKind), narrowInt(got.val, destKind))
        first(fromFmt, fromRaw) ==
            IF fromFmt.ok THEN typed(fromFmt)
            ELSE IF fromRaw.ok THEN typed(fromRaw)
            ELSE NoVal
    IN  first(parseInt(formatted), parseRawNumberToInt64(TrimSpace(raw)))

convertInt(raw, formatted, destKind) ==
    LET typed(got) == SomeVal(TypeOfKind(destKind), narrowInt(got.val, destKind))
        \* always try raw first; fallback to formatted text parsing (cells
        \* stored as text)
        first(fromRaw, fromFmt) ==
            IF fromRaw.ok THEN typed(fromRaw)
            ELSE IF fromFmt.ok THEN typed(fromFmt)
            ELSE NoVal
    IN  first(parseRawNumberToInt64(TrimSpace(raw)), parseInt(formatted))

convertUint(raw, formatted, destKind) ==
    LET typed(got) == SomeVal(TypeOfKind(destKind), narrowUint(got.val, destKind))
        \* always try raw first; a negative formatted integer is no value
        first(fromRaw, i64) ==
            IF fromRaw.ok THEN typed(fromRaw)
            ELSE IF i64.ok /\ ~IsNeg(i64.val) THEN typed(i64)
            ELSE NoVal
    IN  first(parseRawNumberToUint64(TrimSpace(raw)), parseInt(formatted))

\* float32(f64) keeps the decimal: the model's texts have at most 6
\* significant digits where a float32 field reads them.
convertFloat(raw, formatted, ctype, destKind) ==
    LET typed(got) == SomeVal(TypeOfKind(destKind), got.val)
        first(fromRaw, fromFmt) ==
            IF fromRaw.ok THEN typed(fromRaw)
            ELSE IF fromFmt.ok THEN typed(fromFmt)
            ELSE NoVal
    IN  first(IF ctype = "Number" THEN ParseFloat64(TrimSpace(raw)) ELSE NoFloat,
              parseFloat(formatted))

\* The mutant of convertTime: the formatted text is parsed first, the date
\* serial is the fallback.
convertTime_textFirst(raw, formatted, ctype, timeFormat, loc, use1904) ==
    LET text(parsed) == IF parsed.ok THEN SomeVal("time.Time", parsed.val) ELSE NoVal
        serial(t) ==
            IF t.ok THEN SomeVal("time.Time", IF loc # NoLoc THEN [t.val EXCEPT !.loc = loc]
                                              ELSE t.val)
            ELSE NoVal
        number(parsed, f) ==
            IF parsed.ok THEN text(parsed)
            ELSE serial(IF ctype = "Number" /\ f.ok THEN ExcelDateToTime(f.val, use1904)
                        ELSE NoTime)
    IN  number(parseTime(formatted, timeFormat, loc),
               IF ctype = "Number" THEN ParseFloat64(TrimSpace(raw)) ELSE NoFloat)

\* time.Date(y, mo, d, h, mi, s, ns, loc) of the components of t.
inLocation(t, loc) == IF loc # NoLoc THEN [t EXCEPT !.loc = loc] ELSE t

convertTime(raw, formatted, ctype, timeFormat, loc, use1904) ==
    LET text(parsed) == IF parsed.ok THEN SomeVal("time.Time", parsed.val) ELSE NoVal
        serial(t) ==
            IF t.ok THEN SomeVal("time.Time", inLocation(t.val, loc))
            ELSE text(parseTime(formatted, timeFormat, loc))
        number(f) ==
            serial(IF ctype = "Number" /\ f.ok THEN ExcelDateToTime(f.val, use1904) ELSE NoTime)
    IN  number(IF ctype = "Number" THEN ParseFloat64(TrimSpace(raw)) ELSE NoFloat)

convertCell(raw, formatted, ctype, destKind, timeFormat, loc, use1904) ==
    CASE destKind = "String" -> convertString(raw, formatted)
      [] destKind = "Bool" -> convertBool(raw, formatted, ctype)
      [] destKind \in IntKinds -> convertInt(raw, formatted, destKind)
      [] destKind \in UintKinds -> convertUint(raw, formatted, destKind)
      [] destKind \in FloatKinds -> convertFloat(raw, formatted, ctype, destKind)
      [] destKind = "Struct" -> convertTime(raw, formatted, ctype, timeFormat, loc, use1904)
      [] OTHER -> NoVal

-----------------------------------------------------------------------------
(* Struct tags and cell names (the writer's file).                         *)

\* strings.Split(s, sep) for a one-character separator.
RECURSIVE Split(_, _)
Split(s, sep) ==
    LET i == IndexAny(s, {sep})
    IN  IF i = -1 THEN <<s>>
        ELSE <<SubSeq(s, 1, i)>> \o Split(SubSeq(s, i + 2, Len(s)), sep)

\* The mutant of tagValueOf: everything after the first colon is the value.
tagValueOf_afterFirstColon(tagValue, tag) ==
    LET i == IndexAny(tagValue, {":"})
    IN  IF i # -1 /\ SubSeq(tagValue, 1, i) = tag
        THEN [ok |-> TRUE, val |-> SubSeq(tagValue, i + 2, Len(tagValue))]
        ELSE NoText

\* One element of the tag: its value when it splits on ':' into exactly the
\* key and one value.
tagValueOf(tagValue, tag) ==
    LET tagSplit == Split(tagValue, ":")
    IN  IF Len(tagSplit) = 2 /\ tagSplit[1] = tag
        THEN [ok |-> TRUE, val |-> tagSplit[2]]
        ELSE NoText

RECURSIVE firstTagValue(_, _, _)
firstTagValue(parts, k, tag) ==
    IF k > Len(parts) THEN <<>>
    ELSE LET v == tagValueOf(parts[k], tag)
         IN  IF v.ok THEN v.val ELSE firstTagValue(parts, k + 1, tag)

\* getTag(field, tag): field.tag is the value of the xlsx key of the struct
\* tag.
getTag(field, tag) == firstTagValue(Split(Chars(field.tag), ";"), 1, Chars(tag))

getTagBool(field, tag) ==
    LET parts == Split(Chars(field.tag), ";")
    IN  \E k \in 1..Len(parts) : parts[k] = Chars(tag)

getColumnName(field) ==
    LET named(columnName) == IF Len(columnName) > 0 THEN columnName ELSE Chars(field.name)
    IN  named(getTag(field, "name"))

\* The mutant of isSkipped: no field is skipped.
isSkipped_never(field) == FALSE

\* field.Tag.Get("xlsx") == "-"
isSkipped(field) == field.tag = "-"

\* getColumnLetter, as the code points of the text it returns ('A' is 65).
getColumnLetter(columnIdx) ==
    IF columnIdx < 26 THEN <<65 + columnIdx>>
    ELSE <<65 - 1 + (columnIdx \div 26), 65 + (columnIdx % 26)>>

\* GetCellName: the letters and the row number printed after them.
GetCellName(columnIdx, rowIdx) == [col |-> getColumnLetter(columnIdx), row |-> rowIdx]

-----------------------------------------------------------------------------
(* The spreadsheet codec (excelize), as far as the package uses it.        *)

BlankCell == [raw |-> <<>>, fmt |-> <<>>, ctype |-> "Unset"]

NilFile == [nil |-> TRUE, sheets |-> <<>>, date1904 |-> "none"]

IsLetterCode(x) == (x >= 65 /\ x <= 90) \/ (x >= 97 /\ x <= 122)

\* excelize.ColumnNameToNumber, zero-based: letters of either case, in
\* bijective base 26.
RECURSIVE ColumnNumber(_, _)
ColumnNumber(col, acc) ==
    IF col = <<>> THEN acc
    ELSE ColumnNumber(Tail(col),
             acc * 26 + (IF Head(col) >= 97 THEN Head(col) - 96 ELSE Head(col) - 64))

ValidCellName(cell) ==
    /\ cell.col # <<>>
    /\ \A i \in 1..Len(cell.col) : IsLetterCode(cell.col[i])
    /\ cell.row > 0

SheetIndex(f, sheet) ==
    IF \E i \in 1..Len(f.sheets) : f.sheets[i].name = sheet
    THEN CHOOSE i \in 1..Len(f.sheets) : f.sheets[i].name = sheet
    ELSE 0

\* A sheet holds the cells listed and, in the columns of its fill, one and
\* the same cell in every row from row 2 on (a sheet with data in every
\* row, held in finite form).
NoFill == [cols |-> {}, cell |-> BlankCell]

\* The cell a name denotes; a name the codec rejects, or a sheet it does not
\* have, is an error, which the callers read as blank.
CellAt(f, sheet, cell) ==
    LET i == SheetIndex(f, sheet)
        pos == <<ColumnNumber(cell.col, 0) - 1, cell.row>>
    IN  IF i = 0 \/ ~ValidCellName(cell) THEN BlankCell
        ELSE IF pos \in DOMAIN f.sheets[i].cells THEN f.sheets[i].cells[pos]
        ELSE IF pos[1] \in f.sheets[i].fill.cols /\ pos[2] >= 2 THEN f.sheets[i].fill.cell
        ELSE BlankCell

GetCellValue(f, sheet, cell) == CellAt(f, sheet, cell).fmt
GetCellValueRaw(f, sheet, cell) == CellAt(f, sheet, cell).raw
GetCellType(f, sheet, cell) == CellAt(f, sheet, cell).ctype

GetSheetList(f) == [i \in 1..Len(f.sheets) |-> f.sheets[i].name]

-----------------------------------------------------------------------------
(* Record types and destinations (package reflect).                        *)

Field(name, tag, kind, typ, isPtr) ==
    [name |-> name, tag |-> tag, kind |-> kind, typ |-> typ, isPtr |-> isPtr]

UpperSet == {Chars("ABCDEFGHIJKLMNOPQRSTUVWXYZ")[i] : i \in 1..26}

\* A field is exported when its name begins with an upper-case letter; only
\* an exported field can be set through reflection.
IsExported(field) == Chars(field.name)[1] \in UpperSet

\* reflect.Zero of a field's type.
ZeroOfType(kind, typ) ==
    CASE kind = "String" -> Val(typ, <<>>)
      [] kind = "Bool" -> Val(typ, FALSE)
      [] kind \in IntKinds \cup UintKinds -> Val(typ, Zero)
      [] kind \in FloatKinds -> Val(typ, FloatZero)
      [] kind = "Struct" /\ typ = "time.Time" -> Val(typ, ZeroTime)
      [] OTHER -> Val(typ, <<>>)

ZeroField(field) == IF field.isPtr THEN NilPtr ELSE ZeroOfType(field.kind, field.typ)

\* reflect.New(structType).Elem()
ZeroRecord(structType) == [i \in 1..Len(structType) |-> ZeroField(structType[i])]

\* Value.Set panics unless the value's type is the type of the field.
Assignable(v, typ) == v.t = typ

KnownLocations == {Chars("Europe/Kyiv"), Chars("UTC")}

\* time.LoadLocation: nil when the name is not a known zone.
LoadLocation(locName) == IF locName \in KnownLocations THEN locName ELSE NoLoc

-----------------------------------------------------------------------------
(* float64 arithmetic of the writer, on decimals.                          *)

\* mag + n for a digit text and a small natural n.
RECURSIVE AddSmall(_, _)
AddSmall(mag, n) ==
    IF n = 0 THEN mag
    ELSE IF mag = <<>> THEN NatToMag(n)
    ELSE LET cur == DigitVal(mag[Len(mag)]) + n
         IN  AddSmall(SubSeq(mag, 1, Len(mag) - 1), cur \div 10) \o <<DigitChar(cur % 10)>>

\* mag - n for a digit text and a small natural n <= mag.
RECURSIVE SubSmall(_, _)
SubSmall(mag, n) ==
    IF n = 0 THEN mag
    ELSE LET cur == DigitVal(mag[Len(mag)]) - (n % 10)
             borrow == IF cur < 0 THEN 1 ELSE 0
         IN  SubSmall(SubSeq(mag, 1, Len(mag) - 1), n \div 10 + borrow)
             \o <<DigitChar(cur + 10 * borrow)>>

\* mag * n for a digit text and a small natural n, with the carry c.
RECURSIVE MulSmall(_, _, _)
MulSmall(mag, n, c) ==
    IF mag = <<>> THEN (IF c = 0 THEN <<>> ELSE NatToMag(c))
    ELSE LET cur == DigitVal(mag[Len(mag)]) * n + c
         IN  MulSmall(SubSeq(mag, 1, Len(mag) - 1), n, cur \div 10) \o <<DigitChar(cur % 10)>>

\* The quotient digits of the long division of a digit text by a small n.
RECURSIVE LongDiv(_, _, _)
LongDiv(mag, n, rem) ==
    IF mag = <<>> THEN <<>>
    ELSE LET cur == rem * 10 + DigitVal(Head(mag))
         IN  <<DigitChar(cur \div n)>> \o LongDiv(Tail(mag), n, cur % n)

\* 2^53 .. 2^63: above 2^(52+k) a float64 holds multiples of 2^k only.
Pow2Mags ==
    <<Chars("9007199254740992"), Chars("18014398509481984"), Chars("36028797018963968"),
      Chars("72057594037927936"), Chars("144115188075855872"), Chars("288230376151711744"),
      Chars("576460752303423488"), Chars("1152921504606846976"),
      Chars("2305843009213693952"), Chars("4611686018427387904"),
      Chars("9223372036854775808")>>

\* The shortest digits that still denote the float64 of the integer mag
\* (strconv's shortest formatting): the most trailing digits m that can be
\* replaced by zeros, rounding to the nearer side, while staying inside the
\* float's rounding interval (twice its half-widths: lo2 below, up2 above).
RECURSIVE Shortest(_, _, _, _, _)
Shortest(mag, m, lo2, up2, even) ==
    LET tail == MagToInt(SubSeq(mag, Len(mag) - m + 1, Len(mag)), 0)
        head == SubSeq(mag, 1, Len(mag) - m)
        okDown == 2 * tail < lo2 \/ (2 * tail = lo2 /\ even)
        okUp == 2 * (10 ^ m - tail) < up2 \/ (2 * (10 ^ m - tail) = up2 /\ even)
    IN  IF m = 0 THEN mag
        ELSE IF okDown /\ (~okUp \/ 2 * tail <= 10 ^ m) THEN head \o Repeat("0", m)
        ELSE IF okUp THEN AddSmall(head, 1) \o Repeat("0", m)
        ELSE Shortest(mag, m - 1, lo2, up2, even)

\* float64(n) for an int64 numeral n: exact up to 2^53, beyond it rounded to
\* the nearest multiple of the spacing, ties to even; the float is held as
\* its shortest decimal.
Int64ToFloat(n) ==
    LET bitsOf(m) == Cardinality({j \in 1..Len(Pow2Mags) : MagLE(Pow2Mags[j], m)})
        unit == 2 ^ bitsOf(MagOf(n))
        \* the magnitude rounded to a multiple of the spacing, ties to even
        nearest(mag, rem, odd) ==
            IF 2 * rem < unit THEN SubSmall(mag, rem)
            ELSE IF 2 * rem > unit \/ odd THEN AddSmall(SubSmall(mag, rem), unit)
            ELSE SubSmall(mag, rem)
        held(rounded, k2, isPow2) ==
            IF unit = 1 THEN NormFloat(IsNeg(n), rounded, 0)
            ELSE NormFloat(IsNeg(n),
                           Shortest(rounded, 6, IF isPow2 THEN 2 ^ (k2 - 1) ELSE 2 ^ k2,
                                    2 ^ k2, MagMod(rounded, 2 * (2 ^ k2), 0) = 0),
                           0)
        of(rounded) ==
            held(rounded, bitsOf(rounded), \E j \in 1..Len(Pow2Mags) : Pow2Mags[j] = rounded)
    IN  of(nearest(MagOf(n), MagMod(MagOf(n), unit, 0), MagMod(MagOf(n), 2 * unit, 0) >= unit))

Infinity == [neg |-> FALSE, mant |-> <<"Inf">>, exp |-> 0]
NaN == [neg |-> FALSE, mant |-> <<"NaN">>, exp |-> 0]

IsFinite(f) == f.mant \notin {<<"Inf">>, <<"NaN">>}

\* f / float64(i): exact when the quotient has a finite decimal expansion of
\* at most DivDigits further digits, cut there otherwise.
FloatDivInt(f, i) ==
    LET a == IF i < 0 THEN 0 - i ELSE i
        DivDigits == 17
    IN  IF ~IsFinite(f) THEN f
        ELSE IF i = 0 THEN (IF f.mant = Zero THEN NaN ELSE [Infinity EXCEPT !.neg = f.neg])
        ELSE NormFloat(f.neg # (i < 0), LongDiv(f.mant \o Repeat("0", DivDigits), a, 0),
                       f.exp - DivDigits)

\* f * float64(i)
FloatMulInt(f, i) ==
    LET a == IF i < 0 THEN 0 - i ELSE i
    IN  IF ~IsFinite(f) THEN (IF i = 0 THEN NaN ELSE [f EXCEPT !.neg = (f.neg # (i < 0))])
        ELSE NormFloat(f.neg # (i < 0), MulSmall(f.mant, a, 0), f.exp)

\* math.Round: to the nearest integer, halves away from zero.
MathRound(f) ==
    LET cut == Len(f.mant) + f.exp
        whole == IF cut <= 0 THEN Zero ELSE SubSeq(f.mant, 1, cut)
        first == IF cut < 0 THEN 0 ELSE DigitVal(f.mant[cut + 1])
    IN  IF ~IsFinite(f) \/ f.exp >= 0 THEN f
        ELSE NormFloat(f.neg, IF first >= 5 THEN AddSmall(whole, 1) ELSE whole, 0)

\* strconv.FormatFloat(f, 'f', -1, 64)
FormatFloat(f) ==
    LET sign == IF f.neg THEN <<"-">> ELSE <<>>
        cut == Len(f.mant) + f.exp
    IN  IF f.mant = <<"NaN">> THEN Chars("NaN")
        ELSE IF f.mant = <<"Inf">> THEN (IF f.neg THEN Chars("-Inf") ELSE Chars("+Inf"))
        ELSE IF f.exp >= 0 THEN sign \o f.mant \o Repeat("0", f.exp)
        ELSE IF cut > 0
             THEN sign \o SubSeq(f.mant, 1, cut) \o <<".">> \o SubSeq(f.mant, cut + 1, Len(f.mant))
        ELSE sign \o Chars("0.") \o Repeat("0", 0 - cut) \o f.mant

-----------------------------------------------------------------------------
(* Writing through the codec.                                              *)

\* The characters a sheet name may not hold.
SheetNameBad == {":", "\\", "/", "?", "*", "[", "]"}

ValidSheetName(name) ==
    /\ Len(name) > 0 /\ Len(name) <= 31
    /\ \A i \in 1..Len(name) : SubSeq(name, i, i) \notin SheetNameBad

RemoveAt(s, i) == SubSeq(s, 1, i - 1) \o SubSeq(s, i + 1, Len(s))

\* File.DeleteSheet: nothing happens for the only sheet or a missing one.
DeleteSheet(f, name) ==
    IF Len(f.sheets) = 1 \/ SheetIndex(f, name) = 0 THEN f
    ELSE [f EXCEPT !.sheets = RemoveAt(f.sheets, SheetIndex(f, name))]

NoCells == [p \in {} |-> BlankCell]

\* File.NewSheet: a new empty sheet at the end; an existing sheet stays as
\* it is and a bad name is an error (which Write drops).
NewSheet(f, name) ==
    IF ~ValidSheetName(name) \/ SheetIndex(f, name) # 0 THEN f
    ELSE [f EXCEPT !.sheets = Append(f.sheets, [name |-> name, cells |-> NoCells, fill |-> NoFill])]

\* excelize.NewFile()
NewFile == [nil |-> FALSE,
            sheets |-> <<[name |-> "Sheet1", cells |-> NoCells, fill |-> NoFill]>>,
            date1904 |-> "none"]

\* File.SetCellValue with the content the codec stores for the value.
SetCellValue(f, sheet, cell, content) ==
    LET i == SheetIndex(f, sheet)
        pos == <<ColumnNumber(cell.col, 0) - 1, cell.row>>
        old == f.sheets[i].cells
        new == [p \in DOMAIN old \cup {pos} |-> IF p = pos THEN content ELSE old[p]]
    IN  IF i = 0 \/ ~ValidCellName(cell) THEN [ok |-> FALSE, file |-> f]
        ELSE [ok |-> TRUE, file |-> [f EXCEPT !.sheets[i].cells = new]]

\* The first p significant digits of a digit text, rounded, in E notation
\* with the trailing zeros of the mantissa dropped (3.80963E+11).
Scientific(mag, p) ==
    LET text(m, ee) ==
            <<m[1]>> \o (IF Len(m) > 1 THEN <<".">> \o Tail(m) ELSE <<>>)
            \o Chars("E+") \o (IF ee < 10 THEN <<"0">> ELSE <<>>) \o NatToMag(ee)
        mantissa(digits, ee) == text(IF digits = <<>> THEN <<"1">> ELSE digits, ee)
        carry(r, carried) ==
            mantissa(TrimRightSet(IF carried THEN SubSeq(r, 1, p) ELSE r, {"0"}),
                     IF carried THEN Len(mag) ELSE Len(mag) - 1)
        rounded(r) == carry(r, Len(r) > p)
        head(h) == rounded(IF DigitVal(mag[p + 1]) >= 5 THEN AddSmall(h, 1) ELSE h)
    IN  head(SubSeq(mag, 1, p))

\* The text the codec shows for a number stored as raw under the General
\* format: an integer of more than 15 digits is shown with 15 of them
\* in E notation, and a build of the codec that
\* follows the spreadsheet applications ("scientific") shows an integer of
\* more than 11 digits with six.
GeneralText(raw, general) ==
    LET shown(mag, sign) ==
            IF ~isAllDigits(mag) THEN raw
            ELSE IF (Len(mag) > 15 /\ general = "plain")
                    \/ (Len(mag) > 11 /\ general = "scientific")
            THEN sign \o Scientific(mag, IF general = "plain" THEN 15 ELSE 6)
            ELSE raw
    IN  IF HasPrefix(raw, "-") THEN shown(Tail(raw), <<"-">>) ELSE shown(raw, <<>>)

StringCell(s) == [raw |-> s, fmt |-> s, ctype |-> "SharedString"]

BoolCell(b) ==
    [raw |-> IF b THEN <<"1">> ELSE <<"0">>,
     fmt |-> IF b THEN Chars("TRUE") ELSE Chars("FALSE"),
     ctype |-> "Bool"]

NumberCell(raw, codec) ==
    [raw |-> raw, fmt |-> GeneralText(raw, codec.general), ctype |-> codec.numType]

Pad(n, width) == Repeat("0", width - Len(NatToMag(n))) \o NatToMag(n)

\* Time.Format("2006-01-02 15:04:05")
FormatTime(t) ==
    Pad(t.y, 4) \o <<"-">> \o Pad(t.mo, 2) \o <<"-">> \o Pad(t.d, 2) \o <<" ">>
    \o Pad(t.h, 2) \o <<":">> \o Pad(t.mi, 2) \o <<":">> \o Pad(t.s, 2)

\* fmt.Sprint of a value of the kinds the model writes; a float is printed
\* without an exponent.
Sprint(kind, v) ==
    CASE kind = "String" -> v
      [] kind = "Bool" -> (IF v THEN Chars("true") ELSE Chars("false"))
      [] kind \in IntKinds \cup UintKinds -> v
      [] kind \in FloatKinds -> FormatFloat(v)
      [] OTHER -> Chars("{}")

\* isNumeric: the kinds Write hands to getNumeric.
isNumeric(kind) == kind \in {"Int64", "Float64"}

\* The mutant of getNumeric: an int64 is written digit for digit.
getNumeric_exact(field, val) ==
    IF val.t = "float64" THEN val.v
    ELSE IF val.t = "int64" THEN NormFloat(IsNeg(val.v), MagOf(val.v), 0)
    ELSE FloatZero

\* getNumeric: the float64 written for a numeric field, after the divide and
\* round directives.
getNumeric(field, val) ==
    LET divided(f, divide, di) ==
            IF Len(divide) > 0 /\ di.ok THEN FloatDivInt(f, di.val) ELSE f
        rounded(f, round, ri) ==
            IF Len(round) > 0 /\ ri.ok
            THEN FloatDivInt(MathRound(FloatMulInt(f, ri.val)), ri.val)
            ELSE f
    IN  rounded(divided(IF val.t = "float64" THEN val.v
                        ELSE IF val.t = "int64" THEN Int64ToFloat(val.v)
                        ELSE FloatZero,
                        getTag(field, "divide"), Atoi(getTag(field, "divide"))),
                getTag(field, "round"), Atoi(getTag(field, "round")))

\* The content Write stores for one field of a record: the pointer followed,
\* a timestamp formatted, an int64 or float64 through getNumeric, a zero
\* blanked under emptyIfZero, anything else as the codec takes it.
cellContent(field, value, codec) ==
    LET blank == getTagBool(field, "emptyIfZero")
        predeclared == value.t = TypeOfKind(field.kind)
        content(number, text) ==
            IF value = NilPtr THEN StringCell(<<>>)
            ELSE IF value.t = "time.Time"
            THEN (IF blank /\ value.v = ZeroTime THEN StringCell(<<>>)
                  ELSE StringCell(FormatTime(value.v)))
            ELSE IF isNumeric(field.kind)
            THEN (IF blank /\ number = Zero THEN StringCell(<<>>)
                  ELSE NumberCell(number, codec))
            ELSE IF blank /\ text = Zero THEN StringCell(<<>>)
            ELSE IF predeclared /\ field.kind = "Bool" THEN BoolCell(value.v)
            ELSE IF predeclared /\ field.kind \in IntKinds \cup UintKinds \cup FloatKinds
            THEN NumberCell(text, codec)
            ELSE StringCell(text)
    IN  content(FormatFloat(getNumeric(field, value)), Sprint(field.kind, value.v))

headerWrites(structType) ==
    [i \in 1..Len(structType) |->
        [skip |-> isSkipped(structType[i]),
         cell |-> GetCellName(i - 1, 1),
         content |-> StringCell(getColumnName(structType[i]))]]

rowWrites(structType, element, rowi, codec) ==
    [i \in 1..Len(structType) |->
        [skip |-> isSkipped(structType[i]),
         cell |-> GetCellName(i - 1, rowi + 2),
         content |-> cellContent(structType[i], element[i], codec)]]

RECURSIVE allRowWrites(_, _, _, _)
allRowWrites(structType, elems, rowi, codec) ==
    IF rowi >= Len(elems) THEN <<>>
    ELSE rowWrites(structType, elems[rowi + 1], rowi, codec)
         \o allRowWrites(structType, elems, rowi + 1, codec)

\* The cell writes in the order Write makes them, up to the first error.
RECURSIVE applyWrites(_, _, _, _)
applyWrites(f, sheetName, ws, k) ==
    LET next(w) ==
            IF ~w.ok THEN [outcome |-> "error", file |-> f]
            ELSE applyWrites(w.file, sheetName, ws, k + 1)
    IN  IF k > Len(ws) THEN [outcome |-> "nil", file |-> f]
        ELSE IF ws[k].skip THEN applyWrites(f, sheetName, ws, k + 1)
        ELSE next(SetCellValue(f, sheetName, ws[k].cell, ws[k].content))

\* Write: the outcome ("nil", "error" or "panic") and the file it leaves.
WriteResult(f, sheetName, data, structType, codec) ==
    LET f3 == DeleteSheet(NewSheet(DeleteSheet(f, sheetName), sheetName), "Sheet1")
    IN  IF data.kind = "Invalid" THEN [outcome |-> "panic", file |-> f]
        ELSE IF data.kind # "Slice" THEN [outcome |-> "error", file |-> f]
        ELSE IF f.nil THEN [outcome |-> "panic", file |-> f]
        ELSE IF Len(data.elems) = 0 THEN [outcome |-> "nil", file |-> f3]
        ELSE IF data.itemKind # "Struct" THEN [outcome |-> "panic", file |-> f3]
        ELSE applyWrites(f3, sheetName,
                         headerWrites(structType)
                         \o allRowWrites(structType, data.elems, 0, codec), 1)

-----------------------------------------------------------------------------
(* Unmarshal.                                                              *)

dataRowLimit == 100000

\* The mutant of headerColumnScanLimit: the header scan goes as far as the
\* row scan.
headerColumnScanLimit_asRowLimit == dataRowLimit

headerColumnScanLimit == 1024
emptyHeaderTailGap == 16

\* The mutant of emptyDataRowsGap: the row scan gives up as early as the
\* header scan.
emptyDataRowsGap_asHeaderGap == emptyHeaderTailGap

emptyDataRowsGap == 50

\* The mutant of destinationError: the element type is not checked.
destinationError_noElemCheck(d) ==
    IF d.kind # "Ptr" \/ d.isNil THEN "destination must be a non-nil pointer to a slice"
    ELSE IF d.elemKind # "Slice" THEN "destination must be a pointer to a slice"
    ELSE "nil"

\* The validation of the destination in unmarshalTyped; "nil" is no error.
destinationError(d) ==
    LET structKind == IF d.itemKind = "Ptr" THEN d.itemElemKind ELSE d.itemKind
    IN  IF d.kind # "Ptr" \/ d.isNil THEN "destination must be a non-nil pointer to a slice"
        ELSE IF d.elemKind # "Slice" THEN "destination must be a pointer to a slice"
        ELSE IF structKind # "Struct" THEN "slice element must be a struct or pointer to struct"
        ELSE "nil"

\* The field mapping: one fieldInfo per field that is not skipped and whose
\* column name is a header.
RECURSIVE buildFields(_, _, _)
buildFields(structType, i, hm) ==
    IF i > Len(structType) THEN <<>>
    ELSE
    LET fdef == structType[i]
        colName == getColumnName(fdef)
        info == [fieldIdx |-> i,
                 colIdx |-> hm[colName],
                 timeFormat |-> getTag(fdef, "time_format"),
                 loc |-> LoadLocation(getTag(fdef, "locale")),
                 kind |-> fdef.kind,
                 typ |-> fdef.typ,
                 isPtr |-> fdef.isPtr]
    IN  (IF isSkipped(fdef) \/ colName \notin DOMAIN hm THEN <<>> ELSE <<info>>)
        \o buildFields(structType, i + 1, hm)

\* The mutant of rowIsEmpty: a row is never taken for empty.
rowIsEmpty_never(f, sh, fs, row) == FALSE

\* A row is empty when the formatted value of every mapped column is blank.
rowIsEmpty(f, sh, fs, row) ==
    \A k \in 1..Len(fs) :
        TrimSpace(GetCellValue(f, sh, GetCellName(fs[k].colIdx, row))) = <<>>

\* The mutant of populateField: a cell that does not convert ends the read.
populateField_failureFatal(f, sh, fi, fdef, row, d1904) ==
    LET cell == GetCellName(fi.colIdx, row)
        decide(isEmpty, v) ==
            IF isEmpty
            THEN (IF fi.isPtr THEN [op |-> "skip", val |-> NilPtr]
                  ELSE [op |-> "set", val |-> ZeroOfType(fdef.kind, fdef.typ)])
            ELSE IF ~v.ok \/ ~Assignable(v.val, fi.typ) \/ ~IsExported(fdef)
            THEN [op |-> "panic", val |-> NilPtr]
            ELSE [op |-> "set", val |-> v.val]
    IN  decide(/\ TrimSpace(GetCellValue(f, sh, cell)) = <<>>
               /\ TrimSpace(GetCellValueRaw(f, sh, cell)) = <<>>,
               convertCell(GetCellValueRaw(f, sh, cell), GetCellValue(f, sh, cell),
                           GetCellType(f, sh, cell), fi.kind, fi.timeFormat, fi.loc, d1904))

\* The mutant of populateField: a blank cell is converted like any other.
populateField_blankConverted(f, sh, fi, fdef, row, d1904) ==
    LET cell == GetCellName(fi.colIdx, row)
        assign(v) ==
            IF ~v.ok THEN [op |-> "skip", val |-> NilPtr]
            ELSE IF ~Assignable(v.val, fi.typ) \/ ~IsExported(fdef)
            THEN [op |-> "panic", val |-> NilPtr]
            ELSE [op |-> "set", val |-> v.val]
    IN  assign(convertCell(GetCellValueRaw(f, sh, cell), GetCellValue(f, sh, cell),
                           GetCellType(f, sh, cell), fi.kind, fi.timeFormat, fi.loc, d1904))

\* What the population of one field does: "skip" leaves the field as it is,
\* "set" assigns a value, "panic" is a failed Value.Set.
populateField(f, sh, fi, fdef, row, d1904) ==
    LET cell == GetCellName(fi.colIdx, row)
        skip == [op |-> "skip", val |-> NilPtr]
        panic == [op |-> "panic", val |-> NilPtr]
        set(val) == [op |-> "set", val |-> val]
        assign(v) ==
            IF ~Assignable(v.val, fi.typ) \/ ~IsExported(fdef) THEN panic ELSE set(v.val)
        decide(isEmpty, v) ==
            IF fi.isPtr
            THEN IF isEmpty \/ ~v.ok THEN skip ELSE assign(v)
            ELSE IF isEmpty
                 THEN IF ~IsExported(fdef) THEN panic
                      ELSE set(ZeroOfType(fdef.kind, fdef.typ))
                 ELSE IF ~v.ok THEN skip ELSE assign(v)
    IN  decide(/\ TrimSpace(GetCellValue(f, sh, cell)) = <<>>
               /\ TrimSpace(GetCellValueRaw(f, sh, cell)) = <<>>,
               convertCell(GetCellValueRaw(f, sh, cell), GetCellValue(f, sh, cell),
                           GetCellType(f, sh, cell), fi.kind, fi.timeFormat, fi.loc, d1904))

\* The record of one row: the fields populated in the order of the mapping,
\* up to the first panic.
RECURSIVE populate(_, _, _, _, _, _, _, _)
populate(f, sh, fs, k, structType, row, d1904, elem) ==
    LET next(p) ==
            IF p.op = "panic" THEN [panic |-> TRUE, elem |-> elem]
            ELSE IF p.op = "set"
            THEN populate(f, sh, fs, k + 1, structType, row, d1904,
                          [elem EXCEPT ![fs[k].fieldIdx] = p.val])
            ELSE populate(f, sh, fs, k + 1, structType, row, d1904, elem)
    IN  IF k > Len(fs) THEN [panic |-> FALSE, elem |-> elem]
        ELSE next(populateField(f, sh, fs[k], structType[fs[k].fieldIdx], row, d1904))

\* The mutant of appendElem: the record takes the place of what the
\* destination held.
appendElem_replacing(d, elem) == [d EXCEPT !.elems = <<elem>>]

\* rv.Set(reflect.Append(rv, elem))
appendElem(d, elem) == [d EXCEPT !.elems = Append(@, elem)]

-----------------------------------------------------------------------------
(* The program: a Write on a workbook, then an Unmarshal of the workbook   *)
(* into a destination, column by column and row by row.                    *)

VARIABLES
    file,              \* the workbook handle
    typ,               \* the record type of the data and of the destination
    wdata,             \* the data handed to Write
    wsheet,            \* the sheet name handed to Write ("" before the call)
    wout,              \* what Write did: "none", "nil", "error" or "panic"
    dst,               \* the destination handed to Unmarshal
    pc,                \* where the program is
    err,               \* the error Unmarshal returned ("none" before it returns)
    sheet,             \* the sheet Unmarshal reads
    c,                 \* header loop: the column
    emptyTail,         \* header loop: consecutive empty headers after one seen
    seenAny,           \* header loop: a header has been seen
    headerMap,         \* header name -> column
    fields,            \* the field mapping
    use1904,           \* the workbook's date system
    r,                 \* row loop: the row
    consecutiveEmpty,  \* row loop: consecutive empty rows
    appended,          \* the sheet rows of the records appended by this call
    cin,               \* a cell handed to convertCell on its own, with the kind
    cout               \* what convertCell returned for it

vars == <<file, typ, wdata, wsheet, wout, dst, pc, err, sheet, c, emptyTail, seenAny,
          headerMap, fields, use1904, r, consecutiveEmpty, appended, cin, cout>>

cellVars == <<cin, cout>>

scanVars == <<c, emptyTail, seenAny, headerMap, fields, use1904, r, consecutiveEmpty,
              appended>>

NoHeaders == [h \in {} |-> 0]

\* The record types of the runs.  Phone is a named string type, Dims a
\* struct type that is not a timestamp; the column name declared for the
\* field Ratio of labeled contains a colon.
StructType(id) ==
    CASE id = "phoneRow" ->
            <<Field("Phone", "name:Phone", "String", "string", FALSE)>>
      [] id = "intCase" ->
            <<Field("Name", "name:N", "String", "string", FALSE),
              Field("I64", "name:I64", "Int64", "int64", FALSE),
              Field("U64", "name:U64", "Uint64", "uint64", FALSE)>>
      [] id = "counter" ->
            <<Field("I64", "name:I64", "Int64", "int64", FALSE)>>
      [] id = "ucounter" ->
            <<Field("U64", "name:U64", "Uint64", "uint64", FALSE)>>
      [] id = "flags" ->
            <<Field("Name", "", "String", "string", FALSE),
              Field("Active", "name:Active", "Bool", "bool", FALSE)>>
      [] id = "event" ->
            <<Field("Title", "name:Title", "String", "string", FALSE),
              Field("At", "name:At;locale:Europe/Kyiv;time_format:2006-01-02 15:04",
                    "Struct", "time.Time", FALSE)>>
      [] id = "visit" ->
            <<Field("Title", "name:Title", "String", "string", FALSE),
              Field("On", "name:On;time_format:02-01-2006", "Struct", "time.Time", TRUE)>>
      [] id = "optional" ->
            <<Field("Name", "name:Name", "String", "string", TRUE),
              Field("Count", "name:Count", "Int64", "int64", TRUE)>>
      [] id = "secret" ->
            <<Field("Name", "name:Name", "String", "string", FALSE),
              Field("Secret", "-", "String", "string", FALSE),
              Field("Rate", "name:Rate", "Float64", "float64", FALSE)>>
      [] id = "branded" ->
            <<Field("Name", "name:Name", "String", "string", FALSE),
              Field("P", "name:P", "String", "Phone", FALSE)>>
      [] id = "boxed" ->
            <<Field("Name", "name:Name", "String", "string", FALSE),
              Field("D", "name:D", "Struct", "Dims", FALSE)>>
      [] id = "listed" ->
            <<Field("Name", "name:Name", "String", "string", FALSE),
              Field("L", "name:L", "Slice", "[]string", FALSE)>>
      [] id = "labeled" ->
            <<Field("Name", "name:Name", "String", "string", FALSE),
              Field("Ratio", "name:Ratio:x", "String", "string", FALSE)>>
      [] id = "small" ->
            <<Field("Name", "name:Name", "String", "string", FALSE),
              Field("I32", "name:I32", "Int32", "int32", FALSE),
              Field("F32", "name:F32", "Float32", "float32", TRUE)>>
      [] id = "priced" ->
            <<Field("Cents", "name:Cents;divide:100;round:1", "Int64", "int64", FALSE),
              Field("Pence", "name:Pence;divide:100", "Int32", "int32", FALSE),
              Field("Rate", "name:Rate;round:100", "Float64", "float64", TRUE),
              Field("Count", "name:Count", "Int64", "int64", FALSE),
              Field("Share", "name:Share;divide:4", "Float32", "float32", FALSE)>>
      [] OTHER -> <<>>

\* A destination: what was passed as v.  A pointer to a slice of typ's
\* records (or of pointers to them) is the shape Unmarshal accepts.
Dest(kind, isNil, elemKind, itemKind, itemElemKind) ==
    [kind |-> kind, isNil |-> isNil, elemKind |-> elemKind, itemKind |-> itemKind,
     itemElemKind |-> itemElemKind, elems |-> <<>>]

SliceOfStructs == Dest("Ptr", FALSE, "Slice", "Struct", "none")
SliceOfPointers == Dest("Ptr", FALSE, "Slice", "Ptr", "Struct")

NoData == [kind |-> "Slice", itemKind |-> "Struct", elems |-> <<>>]

-----------------------------------------------------------------------------
(* Actions.                                                                *)

\* Write(file, sheetName, data), as one step; a panic ends the program.
Write ==
    /\ pc = "write"
    /\ \E sheetName \in {"Data", "Sheet1"}, general \in {"plain", "scientific"},
          numType \in {"Unset", "Number"} :
       \E w \in {WriteResult(file, sheetName, wdata, StructType(typ),
                             [general |-> general, numType |-> numType])} :
          /\ file' = w.file
          /\ wsheet' = sheetName
          /\ wout' = w.outcome
          /\ pc' = IF w.outcome = "panic" THEN "panic" ELSE "idle"
    /\ UNCHANGED <<typ, wdata, dst, err, sheet>>
    /\ UNCHANGED scanVars
    /\ UNCHANGED cellVars

\* Unmarshal up to the header loop: the checks of the file and of the
\* destination.
UnmarshalBegin ==
    /\ pc = "idle"
    /\ LET e == IF file.nil THEN "file is nil"
                ELSE IF Len(GetSheetList(file)) = 0 THEN "no sheet found"
                ELSE destinationError(dst)
       IN  /\ err' = IF e = "nil" THEN "none" ELSE e
           /\ pc' = IF e = "nil" THEN "header" ELSE "error"
           /\ sheet' = IF file.nil \/ Len(GetSheetList(file)) = 0 THEN ""
                       ELSE GetSheetList(file)[1]
    /\ c' = 0 /\ emptyTail' = 0 /\ seenAny' = FALSE /\ headerMap' = NoHeaders
    /\ UNCHANGED <<file, typ, wdata, wsheet, wout, dst, fields, use1904, r,
                   consecutiveEmpty, appended>>
    /\ UNCHANGED cellVars

\* One iteration of the header loop.
HeaderStep ==
    /\ pc = "header"
    /\ \E h \in {TrimSpace(GetCellValue(file, sheet, GetCellName(c, 1)))} :
       \E stop \in {h = <<>> /\ seenAny /\ emptyTail + 1 >= emptyHeaderTailGap} :
          /\ emptyTail' = IF h # <<>> THEN 0
                          ELSE IF seenAny THEN emptyTail + 1 ELSE emptyTail
          /\ seenAny' = (seenAny \/ h # <<>>)
          /\ headerMap' = IF h = <<>> THEN headerMap
                          ELSE [k \in DOMAIN headerMap \cup {h} |->
                                   IF k = h THEN c ELSE headerMap[k]]
          /\ c' = IF stop THEN c ELSE c + 1
          /\ pc' = IF stop \/ c + 1 >= headerColumnScanLimit THEN "bind" ELSE "header"
    /\ UNCHANGED <<file, typ, wdata, wsheet, wout, dst, err, sheet, fields, use1904, r,
                   consecutiveEmpty, appended>>
    /\ UNCHANGED cellVars

\* After the header loop: nothing to read without headers; otherwise the
\* field mapping and the date system.
Bind ==
    /\ pc = "bind"
    /\ IF DOMAIN headerMap = {}
       THEN /\ pc' = "done" /\ err' = "nil"
            /\ UNCHANGED <<fields, use1904, r, consecutiveEmpty>>
       ELSE /\ pc' = "rows" /\ err' = err
            /\ fields' = buildFields(StructType(typ), 1, headerMap)
            /\ use1904' = (file.date1904 = "true")
            /\ r' = 2 /\ consecutiveEmpty' = 0
    /\ UNCHANGED <<file, typ, wdata, wsheet, wout, dst, sheet, c, emptyTail, seenAny,
                   headerMap, appended>>
    /\ UNCHANGED cellVars

\* One iteration of the row loop.
RowStep ==
    /\ pc = "rows"
    /\ \E empty \in {rowIsEmpty(file, sheet, fields, r)} :
       \E rec \in {IF empty THEN [panic |-> FALSE, elem |-> <<>>]
                   ELSE populate(file, sheet, fields, 1, StructType(typ), r, use1904,
                                 ZeroRecord(StructType(typ)))} :
       \E stop \in {empty /\ consecutiveEmpty + 1 >= emptyDataRowsGap} :
       \E last \in {stop \/ r + 1 >= dataRowLimit} :
          IF empty
          THEN /\ consecutiveEmpty' = consecutiveEmpty + 1
               /\ r' = IF stop THEN r ELSE r + 1
               /\ pc' = IF last THEN "done" ELSE "rows"
               /\ err' = IF last THEN "nil" ELSE err
               /\ UNCHANGED <<dst, appended>>
          ELSE IF rec.panic
          THEN /\ pc' = "panic"
               /\ UNCHANGED <<dst, appended, r, consecutiveEmpty, err>>
          ELSE /\ consecutiveEmpty' = 0
               /\ dst' = appendElem(dst, rec.elem)
               /\ appended' = Append(appended, r)
               /\ r' = r + 1
               /\ pc' = IF last THEN "done" ELSE "rows"
               /\ err' = IF last THEN "nil" ELSE err
    /\ UNCHANGED <<file, typ, wdata, wsheet, wout, sheet, c, emptyTail, seenAny, headerMap,
                   fields, use1904>>
    /\ UNCHANGED cellVars

Next == Write \/ UnmarshalBegin \/ HeaderStep \/ Bind \/ RowStep

-----------------------------------------------------------------------------
(* The runs: workbooks, data and destinations the program starts from.     *)

T(s) == StringCell(Chars(s))

NumCell(raw, formatted) == [raw |-> raw, fmt |-> formatted, ctype |-> "Number"]

\* The cells of a sheet given row by row, row 1 first, column A first.
GridCells(grid) ==
    LET dom == UNION {{<<col - 1, row>> : col \in {k \in 1..Len(grid[row]) :
                                                   grid[row][k] # BlankCell}}
                      : row \in 1..Len(grid)}
    IN  [p \in dom |-> grid[p[2]][p[1] + 1]]

Book(grid) ==
    [nil |-> FALSE,
     sheets |-> <<[name |-> "Sheet1", cells |-> GridCells(grid), fill |-> NoFill]>>,
     date1904 |-> "none"]

NoSheets == [nil |-> FALSE, sheets |-> <<>>, date1904 |-> "none"]

Run(f, t, data, d, start) == [file |-> f, typ |-> t, wdata |-> data, dst |-> d, pc |-> start]

\* The integers of the runs, as numerals: small ones, a phone number, the
\* first integer a float64 cannot hold, and the ends of the int64 range.
IntPool ==
    {Chars("0"), Chars("5"), Chars("-7"), Chars("1200"), Chars("380963334455"),
     Chars("-123456789012"), Chars("9007199254740993"), Chars("9223372036854775807"),
     Chars("-9223372036854775808")}

\* n written in plain decimal.
Plain(n) == n

\* n written with a decimal point.
Pointed(n) == n \o Chars(".0")

\* n written in scientific notation: d.dddE+XX, the mantissa without its
\* trailing zeros.
Sci(n) ==
    LET mag == MagOf(n)
        rest == TrimRightSet(Tail(mag), {"0"})
        e == Len(mag) - 1
    IN  (IF IsNeg(n) THEN <<"-">> ELSE <<>>) \o <<Head(mag)>>
        \o (IF rest = <<>> THEN <<>> ELSE <<".">> \o rest)
        \o Chars("E+") \o (IF e < 10 THEN <<"0">> ELSE <<>>) \o NatToMag(e)

Renderings(n) == {Plain(n), Pointed(n), Sci(n)}

\* Display texts a numeric cell holding n may carry: none (a format that
\* hides the value), the digits, the rounded scientific form, and texts
\* that are not the number at all.
DisplayTexts(n) ==
    {<<>>, Plain(n), GeneralText(n, "scientific"), Chars("abc"), Chars("7")}

\* A sheet with one header and one numeric cell under it, read into a record
\* with a single int64 or (for n >= 0) uint64 field.
ExactRuns ==
    UNION {UNION {
        {Run(Book(<<<<T("I64")>>, <<NumCell(raw, fm)>>>>), "counter", NoData,
             SliceOfStructs, "idle") : fm \in DisplayTexts(n)}
        \cup
        {Run(Book(<<<<T("U64")>>, <<NumCell(raw, fm)>>>>), "ucounter", NoData,
             SliceOfStructs, "idle") : fm \in IF IsNeg(n) THEN {} ELSE DisplayTexts(n)}
        : raw \in Renderings(n)} : n \in IntPool}

\* The cells tried under the second column of each record type.
CellPool(id) ==
    CASE id = "intCase" ->
            {T("abc"), T("12"), T("1,234"), NumCell(Chars("12"), Chars("12")), T("-")}
      [] id = "flags" ->
            {T("yes"), T("y"), T("on"), T("no"), T(" TRUE "), T("1"), T("si"),
             StringCell(<<"U+0414", "U+0410">>), BoolCell(TRUE), BoolCell(FALSE)}
      [] id = "event" ->
            {T("not-a-date"), T("2024-01-15 10:30"), T("2024-01-15 10:30:00"),
             T("2024-01-15"), T("31/12/2023"),
             NumCell(Chars("45306.5"), Chars("1/15/24 12:00")),
             NumCell(Chars("-1"), Chars("-1"))}
      [] id = "visit" ->
            {T("not-a-date"), T("15-01-2024"), T("2024-02-30"), T("02/03/2024")}
      [] id = "optional" ->
            {T("abc"), T("42"), NumCell(Chars("4.2E+01"), Chars("42")), T("4 2")}
      [] id = "branded" -> {T("x"), T("+380963334455")}
      [] id = "boxed" -> {T("x"), T("2024-01-15"), NumCell(Chars("45306"), Chars("45306"))}
      [] id = "listed" -> {T("x"), NumCell(Chars("1"), Chars("1"))}
      [] id = "small" ->
            {T("abc"), T("7"), NumCell(Chars("380963334455"), Chars("3.80963E+11"))}
      [] OTHER -> {}

\* The header of the second column of a record type.
SecondHeader(id) == StringCell(getColumnName(StructType(id)[2]))

\* Two data rows under two headers: the first column holds a name, the
\* second the cell under test in row 2 and a blank or a number in row 3.
CoerceRuns ==
    UNION {
        {Run(Book(<<<<StringCell(getColumnName(StructType(id)[1])), SecondHeader(id)>>,
                    <<T("a"), cell>>,
                    <<T("b"), second>>>>),
             id, NoData, d, "idle")
         : cell \in CellPool(id), second \in {BlankCell, T("1")},
           d \in {SliceOfStructs, SliceOfPointers}}
        : id \in {"intCase", "flags", "event", "visit", "optional", "branded", "boxed",
                  "listed", "small"}}

\* The kinds of data row of the row runs, for the record type flags: a full
\* row, a row without cells, a row whose name is blank, a row of white space
\* and a row whose only content is a number that its format hides.
RowOf(kind) ==
    CASE kind = "D" -> <<T("a"), T("yes")>>
      [] kind = "B" -> <<>>
      [] kind = "P" -> <<BlankCell, T("no")>>
      [] kind = "W" -> <<T(" "), T("")>>
      [] kind = "H" -> <<NumCell(Chars("5"), <<>>), BlankCell>>

FlagsHeader == <<T("Name"), T("Active")>>

GapLens == {emptyDataRowsGap - 1, emptyDataRowsGap}

RowPatterns ==
    {<<a, b, x>> : a \in {"D", "B", "P"}, b \in {"D", "B", "P"}, x \in {"D", "B", "P"}}
    \cup {<<a, b>> : a \in {"D", "W", "H"}, b \in {"D", "W", "H"}}
    \cup {<<"D">> \o Repeat("B", k) \o <<"D">> : k \in GapLens}
    \cup {Repeat("B", k) \o <<"D">> : k \in GapLens}

RowRuns ==
    {Run(Book(<<FlagsHeader>> \o [i \in 1..Len(pat) |-> RowOf(pat[i])]),
         "flags", NoData, SliceOfStructs, "idle") : pat \in RowPatterns}

TailLens == {emptyHeaderTailGap - 1, emptyHeaderTailGap}

\* The header rows of the header runs, for the record type intCase.
HeaderRows ==
    {<<>>,
     <<T("N"), T("I64"), T("U64")>>,
     <<BlankCell, BlankCell, T("N"), T("I64")>>,
     <<T("I64"), T("N"), T("I64")>>,
     <<T(" N "), T("I64 ")>>,
     <<T("X"), T("Y")>>,
     Repeat(BlankCell, 30) \o <<T("N")>>,
     Repeat(BlankCell, 702) \o <<T("N")>>,
     Repeat(BlankCell, 690) \o <<T("N")>> \o Repeat(BlankCell, 11) \o <<T("I64")>>,
     Repeat(BlankCell, 690) \o <<T("I64")>> \o Repeat(BlankCell, 11) \o <<T("I64")>>}
    \cup {<<T("N")>> \o Repeat(BlankCell, k) \o <<T("I64")>> : k \in TailLens}

HeaderRuns ==
    {Run(Book(<<hs, [i \in 1..Len(hs) |-> IF hs[i] = BlankCell THEN BlankCell
                                             ELSE NumCell(NatToMag(i), NatToMag(i))]>>),
         "intCase", NoData, SliceOfStructs, "idle") : hs \in HeaderRows}

\* Destinations Unmarshal refuses: no value at all, a struct, a slice passed
\* by value, a nil pointer, pointers to an int and to a struct, and pointers
\* to slices of ints and of pointers to ints.
BadDests ==
    {Dest("Invalid", FALSE, "none", "none", "none"),
     Dest("Struct", FALSE, "none", "none", "none"),
     Dest("Slice", FALSE, "none", "Struct", "none"),
     Dest("Ptr", TRUE, "Slice", "Struct", "none"),
     Dest("Ptr", FALSE, "Int", "none", "none"),
     Dest("Ptr", FALSE, "Struct", "none", "none"),
     Dest("Ptr", FALSE, "Slice", "Int", "none"),
     Dest("Ptr", FALSE, "Slice", "Ptr", "Int")}

PhoneBook ==
    Book(<<<<T("Phone")>>, <<NumCell(Chars("380963334455"), Chars("3.80963E+11"))>>,
           <<T("+380963334455")>>, <<T("0887776655")>>>>)

\* A destination that already holds a record.
UsedDest == [SliceOfStructs EXCEPT !.elems = <<<<Val("string", Chars("kept"))>>>>]

UsageRuns ==
    {Run(f, "phoneRow", NoData, d, "idle")
     : f \in {NilFile, NoSheets, PhoneBook},
       d \in BadDests \cup {SliceOfStructs, SliceOfPointers, UsedDest,
                            [UsedDest EXCEPT !.kind = "Slice"]}}

S(s) == Val("string", Chars(s))
I64(n) == Val("int64", Chars(n))
U64(n) == Val("uint64", Chars(n))
\* The float64 mant * 10^exp.
F64(mant, exp) == Val("float64", NormFloat(FALSE, Chars(mant), exp))
At(y, mo, d, h, mi, s, loc) ==
    Val("time.Time", [y |-> y, mo |-> mo, d |-> d, h |-> h, mi |-> mi, s |-> s, loc |-> loc])

Kyiv == Chars("Europe/Kyiv")

\* The records written, per record type, in the order they are tried.
DataPool(id) ==
    CASE id = "phoneRow" ->
            <<<<S("+380963334455")>>, <<S("0887776655")>>, <<S("abc")>>, <<S("1e3")>>,
              <<S("")>>, <<S(" 12 ")>>, <<S("380963334455")>>>>
      [] id = "intCase" ->
            <<<<S("row1"), I64("380963334455"), U64("380972687986")>>,
              <<S("r"), I64("9007199254740993"), U64("0")>>,
              <<S(""), I64("0"), U64("0")>>,
              <<S("m"), I64("-123456789012"), U64("18446744073709551615")>>>>
      [] id = "flags" ->
            <<<<S("a"), Val("bool", TRUE)>>, <<S("b"), Val("bool", FALSE)>>>>
      [] id = "event" ->
            <<<<S("t"), At(2024, 1, 15, 10, 30, 0, Kyiv)>>,
              <<S("u"), At(2024, 1, 15, 10, 30, 0, UTC)>>,
              <<S("z"), Val("time.Time", ZeroTime)>>>>
      [] id = "visit" ->
            <<<<S("t"), At(2024, 1, 15, 0, 0, 0, UTC)>>, <<S("n"), NilPtr>>>>
      [] id = "optional" ->
            <<<<S("x"), I64("42")>>, <<NilPtr, NilPtr>>, <<S(""), NilPtr>>,
              <<NilPtr, I64("0")>>>>
      [] id = "secret" ->
            <<<<S("n"), S("hidden"), F64("15", -1)>>, <<S("Secret"), S(""), F64("1", -1)>>>>
      [] id = "small" ->
            <<<<S("n"), Val("int32", Chars("7")), Val("float32", F64("5", -1).v)>>,
              <<S("k"), Val("int32", Chars("-2147483648")), NilPtr>>>>
      [] id = "branded" ->
            <<<<S("n"), Val("Phone", Chars("+380963334455"))>>>>
      [] id = "priced" ->
            <<<<I64("1234"), Val("int32", Chars("250")), F64("126", -3), I64("7"),
                Val("float32", F64("6", 0).v)>>,
              <<I64("-1250"), Val("int32", Chars("-7")), F64("25", -1), I64("0"),
                Val("float32", F64("3", 0).v)>>>>
      [] OTHER -> <<>>

SliceOf(elems) == [kind |-> "Slice", itemKind |-> "Struct", elems |-> elems]

\* The slices written: every record of the pool alone and followed by the
\* first one, and the empty slice.
SlicesOf(pool) ==
    {SliceOf(<<>>)}
    \cup {SliceOf(<<pool[i]>>) : i \in 1..Len(pool)}
    \cup {SliceOf(<<pool[i], pool[1]>>) : i \in 1..Len(pool)}

DataSets(id) == SlicesOf(DataPool(id))

WrittenTypes ==
    {"phoneRow", "intCase", "flags", "event", "visit", "optional", "secret", "small",
     "branded", "priced"}

\* Write on a new workbook, then Unmarshal of it.
RoundTripRuns ==
    UNION {{Run(NewFile, id, data, SliceOfStructs, "write") : data \in DataSets(id)}
           : id \in WrittenTypes}

TwoSheets ==
    [nil |-> FALSE,
     sheets |-> <<[name |-> "Sheet1", cells |-> GridCells(<<<<T("Phone")>>, <<T("1")>>>>),
                   fill |-> NoFill],
                  [name |-> "Other", cells |-> GridCells(<<<<T("Phone")>>, <<T("2")>>>>),
                   fill |-> NoFill]>>,
     date1904 |-> "true"]

\* Write with data that is no slice of records, or on a nil handle or a
\* workbook that already has sheets.
WriteUsageRuns ==
    {Run(f, "phoneRow", data, SliceOfStructs, "write")
     : f \in {NewFile, TwoSheets, NilFile},
       data \in {[kind |-> "Invalid", itemKind |-> "none", elems |-> <<>>],
                 [kind |-> "Struct", itemKind |-> "none", elems |-> <<>>],
                 [kind |-> "Slice", itemKind |-> "Ptr", elems |-> <<<<S("p")>>>>],
                 [kind |-> "Slice", itemKind |-> "Int", elems |-> <<>>],
                 [kind |-> "Slice", itemKind |-> "Int", elems |-> <<<<I64("1")>>>>],
                 SliceOf(<<<<S("w")>>>>)}}

\* A sheet with a column headed by the name of the skipped field of the
\* record type secret; in its last row only that column has content.
SkipRuns ==
    {Run(Book(<<<<T("Name"), T("Secret"), T("Rate")>>,
                <<T("a"), T("stolen"), NumCell(Chars("1.5"), Chars("1.5"))>>,
                <<BlankCell, T("only"), BlankCell>>>>),
         "secret", NoData, d, "idle") : d \in {SliceOfStructs, SliceOfPointers}}

\* Sheets for the record type labeled: the second column is headed by the
\* identifier of the field Ratio, or by the name its tag declares.
LabelRuns ==
    {Run(Book(<<<<T("Name"), T(second)>>, <<T("a"), T("1.5")>>>>), "labeled", NoData, d,
         "idle")
     : second \in {"Ratio", "Ratio:x"}, d \in {SliceOfStructs, SliceOfPointers}}

\* Workbooks of either date system, or without workbook properties, with
\* timestamps in numeric cells: date serials that show another date, a
\* negative number, and a raw value that is no number.
EpochRuns ==
    {Run([Book(<<<<T("Title"), SecondHeader(id)>>,
                  <<T("a"), NumCell(Chars("45306.5"), Chars("2024-01-17 10:30"))>>,
                  <<T("b"), NumCell(Chars("45306"), Chars("16-01-2024"))>>,
                  <<T("c"), NumCell(Chars("-1"), Chars("15-01-2024"))>>,
                  <<T("d"), NumCell(Chars("2024-01-15"), Chars("2024-01-15"))>>>>)
          EXCEPT !.date1904 = flag], id, NoData, d, "idle")
     : flag \in {"none", "false", "true"}, id \in {"event", "visit"},
       d \in {SliceOfStructs, SliceOfPointers}}

\* A destination that already holds a record, and sheets that add none: a
\* blank sheet, a header without rows, rows under a header no field has.
KeptRuns ==
    {Run(Book(grid), "phoneRow", NoData, UsedDest, "idle")
     : grid \in {<<<<BlankCell>>>>, <<<<T("Phone")>>>>, <<<<T("Tel")>>, <<T("1")>>>>}}

Runs == ExactRuns \cup CoerceRuns \cup RowRuns \cup HeaderRuns \cup UsageRuns
        \cup RoundTripRuns \cup WriteUsageRuns \cup SkipRuns \cup LabelRuns
        \cup EpochRuns \cup KeptRuns

\* No cell handed to convertCell, and no result.
NoInput ==
    [raw |-> <<>>, fmt |-> <<>>, ctype |-> "Unset", kind |-> "none",
     timeFormat |-> <<>>, loc |-> NoLoc]

\* Before the calls: nothing written, nothing scanned.
Fresh ==
    /\ wsheet = "" /\ wout = "none" /\ err = "none" /\ sheet = ""
    /\ c = 0 /\ emptyTail = 0 /\ seenAny = FALSE /\ headerMap = NoHeaders
    /\ fields = <<>> /\ use1904 = FALSE /\ r = 0 /\ consecutiveEmpty = 0
    /\ appended = <<>>

Init ==
    \E run \in Runs :
        /\ file = run.file /\ typ = run.typ /\ wdata = run.wdata /\ dst = run.dst
        /\ pc = run.pc
        /\ Fresh
        /\ cin = NoInput /\ cout = NoVal

Spec == Init /\ [][Next]_vars

-----------------------------------------------------------------------------
(* convertCell on its own: one cell, one destination kind.                 *)

\* A cell with the kind of the field it is converted for.
Input(cell, kind) ==
    [raw |-> cell.raw, fmt |-> cell.fmt, ctype |-> cell.ctype, kind |-> kind,
     timeFormat |-> <<>>, loc |-> NoLoc]

\* The storage types of a cell that is no boolean cell.
TextTypes == {"Unset", "SharedString", "InlineString", "Number"}

\* Texts of text cells read into string fields: phone numbers, texts with
\* leading zeros, numbers written out, and text that is no number.
StringTexts ==
    {Chars("+380963334455"), Chars("+"), Chars("+1 (800) 555"), Chars(" +5"),
     Chars("0887776655"), Chars("007"), Chars("00"), Chars("0"), Chars(" 007 "),
     Chars("0x10"), Chars("01.5"), Chars("380963334455"), Chars("3.80963E+11"),
     Chars("1e3"), Chars("12.50"), Chars("abc"), Chars(""), Chars(" "),
     Chars("-0.0"), Chars("-0"), Chars("0e5"), Chars("1e-2"), Chars(".5"), Chars("5."),
     Chars("1.50e1"), Chars("-0.5"), Chars("120e-1"), Chars(" 1.0 "), Chars("-12.00")}

\* The texts a numeric cell holding n may show to a string field: those of
\* DisplayTexts, and n under formats that put a plus sign or a zero in front.
ShownTexts(n) == DisplayTexts(n) \cup {<<"+">> \o MagOf(n), <<"0">> \o MagOf(n)}

StringInputs ==
    {Input([raw |-> s, fmt |-> s, ctype |-> ct], "String")
     : s \in StringTexts, ct \in {"SharedString", "InlineString"}}
    \cup UNION {{Input([raw |-> raw, fmt |-> fm, ctype |-> ct], "String")
                 : raw \in Renderings(n), fm \in ShownTexts(n), ct \in {"Unset", "Number"}}
                : n \in IntPool}

\* Texts read into bool fields: the tokens in either case and with white
\* space around them, and other words.
BoolTexts ==
    {Chars("yes"), Chars("Yes"), Chars(" YES "), Chars("1"), Chars(" 1"), Chars("true"),
     Chars("TRUE"), Chars("True "), Chars("on"), Chars("ON"), Chars("y"), Chars("Y"),
     Chars("si"), Chars("Si"), <<"U+0434", "U+0430">>, <<"U+0414", "U+0410">>,
     Chars("no"), Chars("0"), Chars("false"), Chars("off"), Chars("n"), Chars(""),
     Chars(" "), Chars("2"), Chars("t"), Chars("yes!"), Chars("o n"), Chars("truee"),
     Chars("1.0"), Chars("ja"), Chars("oui"), <<"U+0434">>}

BoolInputs ==
    {Input([raw |-> raw, fmt |-> s, ctype |-> ct], "Bool")
     : s \in BoolTexts, raw \in {<<>>, <<"1">>}, ct \in TextTypes}
    \cup {Input(cell, "Bool") : cell \in {BoolCell(TRUE), BoolCell(FALSE)}}

\* A cell with the time format and the location of the timestamp field it is
\* converted for.
TimeInput(cell, timeFormat, loc) ==
    [raw |-> cell.raw, fmt |-> cell.fmt, ctype |-> cell.ctype, kind |-> "Struct",
     timeFormat |-> timeFormat, loc |-> loc]

\* Texts read into timestamp fields: one or more for each common format, a
\* date both slash formats accept and dates only one of them accepts, a day
\* that does not exist, text around a date, and text that is no date.
TimeTexts ==
    {Chars("2024-01-15 10:30:00"), Chars("2024-01-15T10:30:00Z"),
     Chars("2024-01-15T10:30:00+02:00"), Chars("2024-01-15"), Chars("15-01-2024"),
     Chars("15.01.2024"), Chars("01/02/2024"), Chars("13/02/2024"), Chars("02/13/2024"),
     Chars("03-04-2024"), Chars("2024-01-15 10:30"), Chars("2024-02-30"),
     Chars(" 2024-01-15"), Chars("not-a-date"), Chars("45306"), Chars("")}

\* The time formats declared: none, formats that are not common formats,
\* and the common month-first formats.
TimeFormats ==
    {<<>>, Chars("2006-01-02 15:04"), Chars("01-02-2006"), Chars("01/02/2006"),
     Chars("2006.01.02")}

\* The cells of a text: a text cell, and numeric cells whose raw value is a
\* date serial, is negative or is no number.
TimeCells(s) ==
    {StringCell(s), NumCell(Chars("45306.5"), s), NumCell(Chars("-1"), s), NumCell(s, s)}

TimeInputs ==
    UNION {{TimeInput(cell, tf, loc)
            : cell \in TimeCells(s), tf \in TimeFormats, loc \in {NoLoc, Chars("Europe/Kyiv")}}
           : s \in TimeTexts}

\* Cells read into integer fields whose raw value is no exact integer:
\* decimal numbers, grouped numbers, dates, words, and plain integers kept
\* as text with white space or a sign.
IntTexts ==
    {Chars("12.5"), Chars("1,234.56"), Chars("1,234"), Chars("2024-01-15"), Chars("-1.9"),
     Chars("0.5"), Chars(" 12 "), Chars("-5"), Chars("+5"), Chars("12abc"), Chars("abc"),
     Chars("-"), Chars(""), Chars("1 000"), Chars("15/01/2024"), Chars("3-4")}

\* The raw values under a text: the text itself, the text without its
\* grouping commas, and nothing.
IntCells(s) ==
    {StringCell(s), NumCell(s, s), NumCell(Filter(s, DigitSet \cup {".", "-"}), s),
     [raw |-> <<>>, fmt |-> s, ctype |-> "Unset"]}

IntInputs ==
    UNION {{Input(cell, kind) : cell \in IntCells(s), kind \in {"Int64", "Int", "Int32"}}
           : s \in IntTexts}

\* Texts read into float fields: numbers with a comma, a dot or both as
\* separators, plain numbers, numbers among other characters, and texts
\* without a digit.
FloatTexts ==
    {Chars("1,234.56"), Chars("1,5"), Chars("1.5"), Chars("12"), Chars("-3,25"),
     Chars("1,234,567.5"), Chars("0,5"), Chars(" 7 "), Chars("-0.25"), Chars("1.234,56"),
     Chars("1,234,567"), Chars("$1,234.50"), Chars("1 000,5"), Chars("12abc"),
     Chars("abc"), Chars(""), Chars("-"), Chars("."), Chars(","), Chars("-,"),
     Chars(",."), Chars("n/a"), Chars("--"), Chars(" ")}

\* The cells of a text: a text cell, numeric cells whose raw value is the
\* text, another number or that number among white space, and a cell
\* without storage type that holds a raw number.
FloatCells(s) ==
    {StringCell(s), NumCell(s, s), NumCell(Chars("2.5"), s), NumCell(Chars(" 1e2 "), s),
     [raw |-> Chars("2.5"), fmt |-> s, ctype |-> "Unset"]}

FloatInputs ==
    UNION {{Input(cell, kind) : cell \in FloatCells(s), kind \in {"Float64", "Float32"}}
           : s \in FloatTexts}

\* Raw values that are exact integers, around the ends of the ranges of
\* the integer kinds, in plain, pointed and scientific form.
WholeTexts ==
    {Chars("0"), Chars("-0.0"), Chars("127"), Chars("128"), Chars("-128"), Chars("-129"),
     Chars("255"), Chars("256"), Chars("300"), Chars("3.0E+02"), Chars("32767"),
     Chars("40000"), Chars("65536"), Chars("-1"), Chars("2147483647"),
     Chars("2147483648"), Chars("4294967296"), Chars("380963334455"),
     Chars("3.80963334455E+11"), Chars("9223372036854775808"),
     Chars("18446744073709551616"), Chars("1E+30"), Chars(" 12 ")}

\* Numeric cells that hold an exact integer and show it, or show nothing,
\* read into fields of every integer kind.
WholeInputs ==
    UNION {{Input(NumCell(s, fm), kind)
            : fm \in {s, <<>>}, kind \in IntKinds \cup UintKinds}
           : s \in WholeTexts}

CellInputs ==
    StringInputs \cup BoolInputs \cup TimeInputs \cup IntInputs \cup FloatInputs
    \cup WholeInputs

InitCell ==
    /\ cin \in CellInputs /\ cout = NoVal
    /\ pc = "cell"
    /\ file = NilFile /\ typ = "none" /\ wdata = NoData /\ dst = SliceOfStructs
    /\ Fresh

\* One call of convertCell, in the 1900 date system.
ConvertCell ==
    /\ pc = "cell"
    /\ cout' = convertCell(cin.raw, cin.fmt, cin.ctype, cin.kind, cin.timeFormat, cin.loc,
                         FALSE)
    /\ pc' = "converted"
    /\ UNCHANGED <<file, typ, wdata, wsheet, wout, dst, err, sheet, cin>>
    /\ UNCHANGED scanVars

\* Numeric literals: every sign with mantissas with and without a point,
\* with leading and trailing zeros, and with exponents of either sign; and
\* texts that are no numeric literals.
LiteralTexts ==
    {sign \o mant \o ex
     : sign \in {<<>>, <<"-">>, <<"+">>},
       mant \in {Chars("0"), Chars("00"), Chars("7"), Chars("10"), Chars("120"),
                 Chars("007"), Chars("1.0"), Chars("1.5"), Chars("0.0"), Chars(".5"),
                 Chars("5."), Chars(".0"), Chars("0.10"), Chars("12.00"), Chars("100.0")},
       ex \in {<<>>, Chars("e0"), Chars("e1"), Chars("E2"), Chars("e-1"), Chars("e+1"),
               Chars("E-2"), Chars("e-3")}}
    \cup {Chars(""), Chars("abc"), Chars("."), Chars("e5"), Chars("1e"), Chars("1.2.3"),
          Chars("--1"), Chars("1e1.5"), Chars(" 1"), Chars("+"), Chars("1,5")}

\* A text handed to toIntegerDecimalString on its own.
TextInputs == {[NoInput EXCEPT !.raw = s, !.kind = "text"] : s \in LiteralTexts}

InitText ==
    /\ cin \in TextInputs /\ cout = NoVal
    /\ pc = "text"
    /\ file = NilFile /\ typ = "none" /\ wdata = NoData /\ dst = SliceOfStructs
    /\ Fresh

\* One call of toIntegerDecimalString.
ToIntegerDecimalString ==
    /\ pc = "text"
    /\ \E dec \in {toIntegerDecimalString(cin.raw)} :
          cout' = IF dec.ok THEN SomeVal("string", dec.val) ELSE NoVal
    /\ pc' = "integer"
    /\ UNCHANGED <<file, typ, wdata, wsheet, wout, dst, err, sheet, cin>>
    /\ UNCHANGED scanVars

NextCell == ConvertCell \/ ToIntegerDecimalString

SpecCell == (InitCell \/ InitText) /\ [][NextCell]_vars

-----------------------------------------------------------------------------
(* The scan on its own: the cells Unmarshal reads, up to the hard bounds    *)
(* of its loops.                                                            *)

\* One iteration of the row loop as far as the scan goes: the emptiness
\* check, the counter of empty rows and the row number.  The record of a
\* row with content, built and appended by RowStep, is left out here; it
\* has no part in which rows are read.
ScanRow ==
    /\ pc = "rows"
    /\ \E empty \in {rowIsEmpty(file, sheet, fields, r)} :
       \E stop \in {empty /\ consecutiveEmpty + 1 >= emptyDataRowsGap} :
       \E last \in {stop \/ r + 1 >= dataRowLimit} :
          /\ consecutiveEmpty' = IF empty THEN consecutiveEmpty + 1 ELSE 0
          /\ r' = IF stop THEN r ELSE r + 1
          /\ pc' = IF last THEN "done" ELSE "rows"
          /\ err' = IF last THEN "nil" ELSE err
    /\ UNCHANGED <<file, typ, wdata, wsheet, wout, dst, sheet, c, emptyTail, seenAny,
                   headerMap, fields, use1904, appended>>
    /\ UNCHANGED cellVars

\* A sheet with the given headers and, in the given columns, a phone number
\* in every row below them.
Endless(headers, cols) ==
    [nil |-> FALSE,
     sheets |-> <<[name |-> "Sheet1", cells |-> GridCells(<<headers>>),
                   fill |-> [cols |-> cols, cell |-> T("+380963334455")]]>>,
     date1904 |-> "none"]

\* The sheets scanned: entirely blank; with data in every row of a bound
\* column; with data in every row and no bound field; with headers and no
\* data.
ScanRuns ==
    {Run(f, "phoneRow", NoData, SliceOfStructs, "idle")
     : f \in {Endless(<<>>, {}), Endless(<<T("Phone")>>, {0}), Endless(<<T("Tel")>>, {0}),
              Endless(<<T("Tel"), T("Phone")>>, {0}), Endless(<<T("Phone")>>, {})}}

InitScan ==
    \E run \in ScanRuns :
        /\ file = run.file /\ typ = run.typ /\ wdata = run.wdata /\ dst = run.dst
        /\ pc = run.pc
        /\ Fresh
        /\ cin = NoInput /\ cout = NoVal

NextScan == UnmarshalBegin \/ HeaderStep \/ Bind \/ ScanRow

\* Unmarshal runs on one goroutine and nothing in its loops blocks: an
\* iteration that can be taken is taken.
SpecScan == InitScan /\ [][NextScan]_vars /\ WF_vars(NextScan)

-----------------------------------------------------------------------------
(* Properties.                                                             *)

\* The usage mistakes of Unmarshal: a nil file handle, a workbook without
\* sheets, a destination that is no non-nil pointer, a pointer to something
\* that is no slice, a slice whose elements are neither structs nor
\* pointers to structs.
Misuse ==
    \/ file.nil
    \/ Len(GetSheetList(file)) = 0
    \/ dst.kind # "Ptr" \/ dst.isNil
    \/ dst.elemKind # "Slice"
    \/ ~(dst.itemKind = "Struct" \/ (dst.itemKind = "Ptr" /\ dst.itemElemKind = "Struct"))

\* C4: an Unmarshal called with a usage mistake returns a non-nil error and
\* leaves the destination as it was.
C4_UsageErrors ==
    [][(pc = "idle" /\ Misuse) =>
          (pc' = "error" /\ err' \notin {"nil", "none"} /\ dst' = dst)]_vars

\* C4, its case: Unmarshal has returned the error of a slice of ints, and
\* the destination holds what it held.
C4_Witness ==
    /\ pc = "error"
    /\ err = "slice element must be a struct or pointer to struct"
    /\ ~file.nil /\ dst.kind = "Ptr" /\ dst.elemKind = "Slice" /\ dst.itemKind = "Int"
    /\ dst.elems = <<>>

\* A row has content when the text shown for one of its bound columns is
\* not blank after trimming.
HasBoundContent(row) ==
    \E k \in 1..Len(fields) :
        TrimSpace(GetCellValue(file, sheet, GetCellName(fields[k].colIdx, row))) # <<>>

\* The rows the row loop has been through: all rows below r while it runs,
\* and the row it stopped at as well once it has returned.
ScannedRows == IF pc = "done" THEN 2..r ELSE 2..(r - 1)

ColumnsOf(f, name) ==
    UNION {{p[1] : p \in DOMAIN f.sheets[i].cells}
           : i \in {k \in 1..Len(f.sheets) : f.sheets[k].name = name}}

\* The fields of the record type in use that carry the tag `-`.
DashFields == {i \in 1..Len(StructType(typ)) : StructType(typ)[i].tag = "-"}

\* C8: once Write has returned, the sheet it wrote has no cell, header or
\* data, in the column of a field tagged `-`; and every record Unmarshal
\* has appended holds the zero value in such a field.
C8_SkipTag ==
    /\ wout = "nil" =>
           \A i \in DashFields : (i - 1) \notin ColumnsOf(file, wsheet)
    /\ pc \in {"rows", "done"} =>
           \A k \in 1..Len(dst.elems) : \A i \in DashFields :
               i <= Len(dst.elems[k]) =>
                   dst.elems[k][i] = ZeroOfType(StructType(typ)[i].kind,
                                                StructType(typ)[i].typ)

\* C8, its case on the read side: row 1 holds a header equal to the name
\* of the skipped field, and a record has been read from under it.
C8_Witness ==
    /\ pc = "done" /\ DashFields # {}
    /\ \E i \in DashFields : Chars(StructType(typ)[i].name) \in DOMAIN headerMap
    /\ Len(dst.elems) >= 1

\* The conversion of the cell of bound field k in a row, as Unmarshal
\* calls it.
Converted(k, row) ==
    convertCell(GetCellValueRaw(file, sheet, GetCellName(fields[k].colIdx, row)),
                GetCellValue(file, sheet, GetCellName(fields[k].colIdx, row)),
                GetCellType(file, sheet, GetCellName(fields[k].colIdx, row)),
                fields[k].kind, fields[k].timeFormat, fields[k].loc, use1904)

\* The cell of bound field k in a row shows text.
ShowsText(k, row) ==
    TrimSpace(GetCellValue(file, sheet, GetCellName(fields[k].colIdx, row))) # <<>>

\* The cell of bound field k in a row is blank in both representations.
IsBlank(k, row) ==
    /\ ~ShowsText(k, row)
    /\ TrimSpace(GetCellValueRaw(file, sheet, GetCellName(fields[k].colIdx, row))) = <<>>

\* The record appended for the i-th row with a record.
RecordOf(i) == dst.elems[Len(dst.elems) - Len(appended) + i]

\* The value of bound field k in a record.
Bound(rec, k) == rec[fields[k].fieldIdx]

\* C5: a bound cell that does not convert leaves its field at the zero value
\* (nil for a pointer field) and nothing else changes: the other bound fields
\* of the record hold their converted values, the record of every row that
\* shows text in a bound column is appended, including the rows after it,
\* Unmarshal returns nil, and it never panics in a row unless a cell of that
\* row converted to a value its field cannot take.
C5_CoercionFailureLocal ==
    /\ pc \in {"rows", "done"} =>
        /\ err \in {"none", "nil"}
        /\ \A row \in ScannedRows :
               (\E k \in 1..Len(fields) : ShowsText(k, row)) =>
                   \E i \in 1..Len(appended) : appended[i] = row
        /\ \A i \in 1..Len(appended) : \A k \in 1..Len(fields) :
               Bound(RecordOf(i), k) =
                   IF IsBlank(k, appended[i]) \/ ~Converted(k, appended[i]).ok
                   THEN ZeroField(StructType(typ)[fields[k].fieldIdx])
                   ELSE Converted(k, appended[i]).val
    /\ pc = "done" => err = "nil"
    /\ (pc = "panic" /\ wout # "panic") =>
           \E k \in 1..Len(fields) :
               /\ Converted(k, r).ok
               /\ ~Assignable(Converted(k, r).val, fields[k].typ)

\* C5, its case: Unmarshal has returned nil; a cell that shows text did not
\* convert, another field of its record is populated, and a later row has
\* its record too.
C5_Witness ==
    /\ pc = "done" /\ err = "nil"
    /\ \E i \in 1..(Len(appended) - 1) : \E k, j \in 1..Len(fields) :
          /\ ShowsText(k, appended[i]) /\ ~Converted(k, appended[i]).ok
          /\ Bound(RecordOf(i), k) = ZeroField(StructType(typ)[fields[k].fieldIdx])
          /\ j # k /\ Converted(j, appended[i]).ok
          /\ Bound(RecordOf(i), j) = Converted(j, appended[i]).val
          /\ Bound(RecordOf(i), j) # ZeroField(StructType(typ)[fields[j].fieldIdx])

\* The kinds convertCell converts to.
SupportedKinds == {"String", "Bool", "Struct"} \cup IntKinds \cup UintKinds \cup FloatKinds

\* C6: Unmarshal never panics, whatever the type of a bound field and the
\* content of its cell, and a bound field of a kind that convertCell does not
\* convert to holds its zero value in every record.
C6_CoercionNeverAborts ==
    /\ ~(pc = "panic" /\ wout # "panic")
    /\ pc \in {"rows", "done"} =>
           \A i \in 1..Len(appended) : \A k \in 1..Len(fields) :
               fields[k].kind \notin SupportedKinds =>
                   Bound(RecordOf(i), k) = ZeroField(StructType(typ)[fields[k].fieldIdx])

\* C6, its failure: Unmarshal has panicked in row 2 of a sheet read into
\* records with a field of the named string type Phone; the cell converted
\* to a string, which Value.Set does not take for a Phone.
C6_Witness ==
    /\ pc = "panic" /\ wout = "none" /\ typ = "branded" /\ r = 2
    /\ \E k \in 1..Len(fields) :
          /\ fields[k].typ = "Phone"
          /\ Converted(k, r).ok /\ Converted(k, r).val.t = "string"

\* The integer a raw text denotes: the integer of the pool that has the text
\* among its renderings (plain, with a decimal point, scientific).
Denotes(raw, n) == n \in IntPool /\ raw \in Renderings(n)

\* The raw text of the cell under the only header of the exact runs.
RawA2 == GetCellValueRaw(file, sheet, GetCellName(0, 2))

\* C1: once Unmarshal has returned from a sheet whose cell A2 holds a raw
\* text denoting the integer n, under the header of the only field of the
\* record, an int64 (or, for n >= 0, a uint64), the destination holds one
\* record and its field is exactly n, whatever text the cell shows.
C1_ExactIntegers ==
    (pc = "done" /\ typ \in {"counter", "ucounter"}) =>
        \A n \in IntPool :
            Denotes(RawA2, n) =>
                dst.elems = <<<<Val(IF typ = "counter" THEN "int64" ELSE "uint64", n)>>>>

\* C1, its failure: Unmarshal has returned nil without a record although
\* A2 holds the number 9007199254740993, which the cell's format hides.
C1_Witness ==
    /\ pc = "done" /\ err = "nil" /\ typ = "counter"
    /\ Denotes(RawA2, Chars("9007199254740993"))
    /\ GetCellValue(file, sheet, GetCellName(0, 2)) = <<>>
    /\ dst.elems = <<>>

\* The record types of the round trips whose fields are strings, bools,
\* integers, floats and timestamps, by value or by pointer, without a
\* divide, round, emptyIfZero or skip tag.
PlainTypes == {"phoneRow", "intCase", "flags", "event", "visit", "optional", "small"}

\* The workbook holds the sheet Write wrote and no other: it was new.
WroteNewWorkbook == GetSheetList(file) = <<wsheet>>

\* C3: once Write of a sequence of records of such a type to a sheet of a
\* new workbook and Unmarshal of that workbook have both returned nil, the
\* destination holds the sequence written, record for record and field for
\* field.
C3_RoundTrip ==
    (pc = "done" /\ wout = "nil" /\ err = "nil" /\ typ \in PlainTypes /\ WroteNewWorkbook) =>
        dst.elems = wdata.elems

\* C3, its failure: the record {Phone: "1e3"} was written and the record
\* {Phone: "1000"} was read back.
C3_Witness ==
    /\ pc = "done" /\ wout = "nil" /\ err = "nil" /\ typ = "phoneRow" /\ WroteNewWorkbook
    /\ wdata.elems = <<<<S("1e3")>>>>
    /\ dst.elems = <<<<S("1000")>>>>

\* The pattern a tag declares for a key: in the first element of the tag
\* that begins with the key and a colon, everything after that colon.
Declared(tag, key) ==
    LET parts == Split(Chars(tag), ";")
        pre == Chars(key) \o <<":">>
        hits == {k \in 1..Len(parts) :
                    Len(parts[k]) >= Len(pre) /\ SubSeq(parts[k], 1, Len(pre)) = pre}
        first == CHOOSE k \in hits : \A j \in hits : k <= j
    IN  IF hits = {} THEN <<>> ELSE SubSeq(parts[first], Len(pre) + 1, Len(parts[first]))

\* C9: the time format Unmarshal binds to a field is the whole pattern its
\* tag declares after `time_format:`, also when the pattern contains ':'.
C9_TimeFormatWhole ==
    pc \in {"rows", "done"} =>
        \A k \in 1..Len(fields) :
            fields[k].timeFormat
                = Declared(StructType(typ)[fields[k].fieldIdx].tag, "time_format")
                /\ getTag(StructType(typ)[fields[k].fieldIdx], "time_format")
                     = fields[k].timeFormat

\* C9, its failure: the field At declares time_format:2006-01-02 15:04, the
\* format bound to it is empty, and the cell "2024-01-15 10:30" under its
\* header has left it at the zero time.
C9_Witness ==
    /\ pc = "done" /\ err = "nil" /\ typ = "event"
    /\ \E k \in 1..Len(fields) :
          /\ Declared(StructType(typ)[fields[k].fieldIdx].tag, "time_format")
                = Chars("2006-01-02 15:04")
          /\ fields[k].timeFormat = <<>>
          /\ GetCellValue(file, sheet, GetCellName(fields[k].colIdx, 2))
                = Chars("2024-01-15 10:30")
          /\ Len(appended) >= 1 /\ appended[1] = 2
          /\ Bound(RecordOf(1), k) = Val("time.Time", ZeroTime)

\* The formatted text begins with '+'.
BeginsWithPlus(s) == s # <<>> /\ s[1] = "+"

\* The formatted text is a '0' followed only by further digits.
ZeroThenDigits(s) ==
    Len(s) > 1 /\ s[1] = "0" /\ \A i \in 2..Len(s) : s[i] \in DigitSet

\* C2: for a string field, a cell whose formatted text begins with '+' or
\* is a '0' followed by digits only is returned as that text; otherwise a
\* numeric cell holding the integer n is returned as the plain decimal
\* digits of n, without exponent and without decimal point.
C2_StringIdentifiers ==
    (pc = "converted" /\ cin.kind = "String") =>
        /\ BeginsWithPlus(cin.fmt) => cout = SomeVal("string", cin.fmt)
        /\ ZeroThenDigits(cin.fmt) => cout = SomeVal("string", cin.fmt)
        /\ (/\ ~BeginsWithPlus(cin.fmt) /\ ~ZeroThenDigits(cin.fmt)
            /\ cin.ctype \in {"Unset", "Number"}) =>
               \A n \in IntPool :
                   Denotes(cin.raw, n) => cout = SomeVal("string", Plain(n))

\* C2, its case: the numeric cell 380963334455 that shows 3.80963E+11 has
\* been converted for a string field to the twelve digits.
C2_Witness ==
    /\ pc = "converted" /\ cin.kind = "String" /\ cin.ctype = "Number"
    /\ cin.raw = Chars("380963334455") /\ cin.fmt = Chars("3.80963E+11")
    /\ cout = SomeVal("string", Chars("380963334455"))

\* The tokens the claim names.
NamedTokens == {Chars("yes"), Chars("1"), Chars("true"), Chars("on")}

\* The tokens of the claim, with those it leaves out: y, si and the
\* Cyrillic da.
AllTokens == NamedTokens \cup {Chars("y"), Chars("si"), <<"U+0434", "U+0430">>}

\* C10 as stated: for a cell that is no boolean cell the conversion to bool
\* succeeds, and gives true exactly when the formatted text, trimmed and in
\* lower case, is yes, 1, true or on.
C10_BoolTokensAsStated ==
    (pc = "converted" /\ cin.kind = "Bool" /\ cin.ctype # "Bool") =>
        /\ cout.ok
        /\ cout.val = Val("bool", ToLower(TrimSpace(cin.fmt)) \in NamedTokens)

\* C10, amended: the conversion succeeds, and gives true exactly when the
\* formatted text, trimmed and in lower case, is yes, y, 1, true, on, si or
\* the Cyrillic da.
C10_BoolTokens ==
    (pc = "converted" /\ cin.kind = "Bool" /\ cin.ctype # "Bool") =>
        /\ cout.ok
        /\ cout.val = Val("bool", ToLower(TrimSpace(cin.fmt)) \in AllTokens)

\* C10, its case: the text " YES " of a cell whose raw value is empty has
\* been converted to true, and so has "y".
C10_Witness ==
    /\ pc = "converted" /\ cin.kind = "Bool" /\ cin.ctype = "SharedString"
    /\ cin.fmt \in {Chars(" YES "), Chars("y")} /\ cin.raw = <<>>
    /\ cout = SomeVal("bool", TRUE)

\* The common formats in the order the claim gives them.
DeclaredOrder ==
    <<Chars("2006-01-02 15:04:05"), Chars("2006-01-02T15:04:05Z07:00"),
      Chars("2006-01-02"), Chars("02-01-2006"), Chars("02.01.2006"),
      Chars("02/01/2006"), Chars("01/02/2006")>>

\* The formats tried for the cell: the declared one, then the common ones.
Chain == (IF cin.timeFormat # <<>> THEN <<cin.timeFormat>> ELSE <<>>) \o DeclaredOrder

\* The text read under one format alone: in the field's location when it
\* has one and the text parses there, else in UTC.
ReadAs(layout) ==
    IF cin.loc # NoLoc /\ ParseInLocation(layout, cin.fmt, cin.loc).ok
    THEN ParseInLocation(layout, cin.fmt, cin.loc)
    ELSE TimeParse(layout, cin.fmt)

\* The timestamp is parsed from the formatted text: the cell is no numeric
\* cell, or its raw value is no date serial.
FromText ==
    \/ cin.ctype # "Number"
    \/ ~ParseFloat64(TrimSpace(cin.raw)).ok
    \/ ~ExcelDateToTime(ParseFloat64(TrimSpace(cin.raw)).val, FALSE).ok

\* The date of a converted timestamp.
DateOf(out) == <<out.val.v.y, out.val.v.mo, out.val.v.d>>

\* C11: a timestamp parsed from formatted text is the text read under the
\* first format of the chain (declared format, then the common formats in
\* their declared order) that parses it, and the conversion fails when none
\* does; 2024-01-15 parses without a declared format, 01/02/2024 is read
\* day-first, not-a-date fails.
C11_TimeFallbackChain ==
    (pc = "converted" /\ cin.kind = "Struct" /\ FromText) =>
        /\ \A k \in 1..Len(Chain) :
              (ReadAs(Chain[k]).ok /\ \A j \in 1..(k - 1) : ~ReadAs(Chain[j]).ok)
                  => cout = SomeVal("time.Time", ReadAs(Chain[k]).val)
        /\ (\A k \in 1..Len(Chain) : ~ReadAs(Chain[k]).ok) => cout = NoVal
        /\ (cin.timeFormat = <<>> /\ cin.fmt = Chars("2024-01-15"))
              => (cout.ok /\ DateOf(cout) = <<2024, 1, 15>>)
        /\ (cin.timeFormat = <<>> /\ cin.fmt = Chars("01/02/2024"))
              => (cout.ok /\ DateOf(cout) = <<2024, 2, 1>>)
        /\ cin.fmt = Chars("not-a-date") => ~cout.ok

\* C11, its case: the text 01/02/2024, which both slash formats parse, has
\* been converted without a declared format to the first of February.
C11_Witness ==
    /\ pc = "converted" /\ cin.kind = "Struct" /\ cin.ctype = "SharedString"
    /\ cin.timeFormat = <<>> /\ cin.fmt = Chars("01/02/2024")
    /\ cout.ok /\ DateOf(cout) = <<2024, 2, 1>>

\* The trimmed text the sheet shows in row 1 of a column, whatever name the
\* column is asked for by.
HeaderText(col) ==
    LET cells == file.sheets[SheetIndex(file, sheet)].cells
    IN  IF <<col, 1>> \in DOMAIN cells THEN TrimSpace(cells[<<col, 1>>].fmt) ELSE <<>>

\* The columns the header scan has reached when it is over.
Reached == 0..(IF c >= headerColumnScanLimit THEN headerColumnScanLimit - 1 ELSE c)

\* C12: when the header scan is over, every non-blank header cell of the
\* columns it reached is in the header map, and it is over either at column
\* 1024 or at the 16th of 16 consecutive blank header cells that follow a
\* non-blank one (so blank cells before the first header, and up to 15 blank
\* cells between two headers, do not stop it).
C12_HeaderGapTolerance ==
    pc = "bind" =>
        /\ \A col \in Reached : HeaderText(col) # <<>> => HeaderText(col) \in DOMAIN headerMap
        /\ \/ c = headerColumnScanLimit
           \/ /\ c >= emptyHeaderTailGap
              /\ \A col \in (c - emptyHeaderTailGap + 1)..c : HeaderText(col) = <<>>
              /\ \E col \in 0..(c - emptyHeaderTailGap) : HeaderText(col) # <<>>

\* C12, where it fails: the scan is over, it has passed a header cell of
\* column 702 or beyond, and the header is not in the map.
C12_Witness ==
    /\ pc = "bind"
    /\ \E col \in Reached :
          col >= 702 /\ HeaderText(col) # <<>> /\ HeaderText(col) \notin DOMAIN headerMap

\* The name of a column in letters A-Z, base 26 without a zero digit (A for
\* 0, Z for 25, AA for 26), as code points.
RECURSIVE ColumnLetters(_)
ColumnLetters(col) ==
    IF col < 26 THEN <<65 + col>>
    ELSE ColumnLetters(col \div 26 - 1) \o <<65 + (col % 26)>>

\* C13: every cell the scans ask for is named by the letters A-Z of its
\* column followed by its row number, a name the codec accepts: the header
\* cell of each column 0..1023, and the cells of the bound columns in each
\* data row.
C13_CellAddressing ==
    /\ (pc = "header" /\ c < headerColumnScanLimit) =>
          /\ GetCellName(c, 1) = [col |-> ColumnLetters(c), row |-> 1]
          /\ ValidCellName(GetCellName(c, 1))
    /\ pc = "rows" =>
          \A k \in 1..Len(fields) :
              /\ GetCellName(fields[k].colIdx, r)
                     = [col |-> ColumnLetters(fields[k].colIdx), row |-> r]
              /\ ValidCellName(GetCellName(fields[k].colIdx, r))

\* C13, where it fails: the header scan is at column 702, whose name AAA has
\* three letters, and asks for a name the codec rejects.
C13_Witness ==
    /\ pc = "header" /\ c = 702
    /\ ColumnLetters(c) = <<65, 65, 65>>
    /\ ~ValidCellName(GetCellName(c, 1))

\* Data that is no sequence of records: no value at all (nil), a value that
\* is no slice, a slice whose elements are no structs.
NotRecords(data) == data.kind # "Slice" \/ data.itemKind # "Struct"

\* C14: Write called with data that is no sequence of records returns an
\* error, without a panic and without changing the workbook.
C14_WriteUsageErrors ==
    [][(pc = "write" /\ NotRecords(wdata)) => (wout' = "error" /\ file' = file)]_vars

\* C14, where it fails: Write was called on a new workbook with nil data,
\* or with a slice of ints or of pointers that is not empty, and panicked.
C14_Witness ==
    /\ wout = "panic" /\ NotRecords(wdata) /\ ~file.nil
    /\ wdata.kind = "Invalid" \/ Len(wdata.elems) > 0

\* The last row the row loop has been through.
LastScanned == IF pc = "done" THEN r ELSE r - 1

ColumnsShowing(h) == {col \in Reached : HeaderText(col) = h}

\* The right-most column of a set of columns.
RightMost(cols) == CHOOSE col \in cols : \A other \in cols : other <= col

\* C16: after the header scan the keys of the header map are the distinct
\* non-blank trimmed texts of the header cells reached, each key is mapped to
\* the right-most column that shows it, and a bound field reads the column
\* its name is mapped to.
C16_HeaderMapRightMost ==
    pc \in {"bind", "rows", "done"} =>
        /\ DOMAIN headerMap = {HeaderText(col) : col \in Reached} \ {<<>>}
        /\ \A h \in DOMAIN headerMap : headerMap[h] = RightMost(ColumnsShowing(h))
        /\ pc = "rows" =>
              \A k \in 1..Len(fields) :
                  fields[k].colIdx
                      = RightMost(ColumnsShowing(getColumnName(StructType(typ)[fields[k].fieldIdx])))

\* C16, where it fails: the rows are read with a field bound to a column
\* that is not the right-most one showing its name, the right-most being
\* column 702 or beyond.
C16_Witness ==
    /\ pc = "rows"
    /\ \E k \in 1..Len(fields) :
          \E col \in ColumnsShowing(getColumnName(StructType(typ)[fields[k].fieldIdx])) :
              col >= 702 /\ fields[k].colIdx < col

\* The display name of a field: the name its tag declares, or the field's
\* identifier when the tag declares none.
DisplayName(fdef) ==
    IF Declared(fdef.tag, "name") # <<>> THEN Declared(fdef.tag, "name") ELSE Chars(fdef.name)

\* The fields of the record type whose display name is no header.
Unbound ==
    {i \in 1..Len(StructType(typ)) : DisplayName(StructType(typ)[i]) \notin DOMAIN headerMap}

\* C17: a field whose display name is no key of the header map is not in the
\* field mapping (no cell is read for it), holds its zero value in every
\* record of the call, and Unmarshal returns without an error.
C17_UnboundUntouched ==
    pc \in {"rows", "done"} =>
        \A i \in Unbound :
            /\ \A k \in 1..Len(fields) : fields[k].fieldIdx # i
            /\ \A j \in 1..Len(appended) : RecordOf(j)[i] = ZeroField(StructType(typ)[i])
            /\ pc = "done" => err = "nil"

\* C17, where it fails: the tag of the field Ratio declares the name Ratio:x,
\* no header shows that name, and the record of row 2 holds in Ratio the
\* text of the column headed Ratio.
C17_Witness ==
    /\ pc = "done" /\ typ = "labeled" /\ 2 \in Unbound
    /\ DOMAIN headerMap = {Chars("Name"), Chars("Ratio")}
    /\ Len(appended) = 1 /\ RecordOf(1)[2] = S("1.5")

\* The rows with a record.
RowsWithRecord == {appended[i] : i \in 1..Len(appended)}

\* C18: a scanned data row is skipped exactly when every bound column's
\* cell is blank after trimming in both its raw and its formatted
\* representation; every other row, also one whose only content is a raw
\* value that shows no text, has a record.
C18_RowEmptinessBoth ==
    pc \in {"rows", "done"} =>
        \A row \in ScannedRows :
            row \notin RowsWithRecord <=> \A k \in 1..Len(fields) : IsBlank(k, row)

\* C18, where it fails: Unmarshal has returned, and a scanned row with a
\* bound cell that holds a raw value but shows no text has no record.
C18_Witness ==
    /\ pc = "done" /\ err = "nil"
    /\ \E row \in ScannedRows :
          /\ row \notin RowsWithRecord
          /\ \E k \in 1..Len(fields) : ~ShowsText(k, row) /\ ~IsBlank(k, row)

\* The exact raw path fails for the cell: its raw value is no integer.
RawPathFails == ~parseRawNumberToInt64(TrimSpace(cin.raw)).ok

\* C19: when the exact raw path fails for an integer field, a formatted
\* text that is a plain integer gives that integer, the text 12.5 gives 12,
\* the text 1,234.56 gives 1234, and the date text 2024-01-15 does not
\* convert.
C19_IntegerFallback ==
    (pc = "converted" /\ cin.kind \in IntKinds /\ RawPathFails) =>
        /\ ParseInt64(TrimSpace(cin.fmt)).ok =>
              (cout.ok /\ cout.val.v = ParseInt64(TrimSpace(cin.fmt)).val)
        /\ cin.fmt = Chars("12.5") => (cout.ok /\ cout.val.v = Chars("12"))
        /\ cin.fmt = Chars("1,234.56") => (cout.ok /\ cout.val.v = Chars("1234"))
        /\ cin.fmt = Chars("2024-01-15") => ~cout.ok

\* C19, where it fails: a cell with raw value and formatted text 12.5 has
\* been converted for an int64 field to 125.
C19_Witness ==
    /\ pc = "converted" /\ cin.kind = "Int64"
    /\ cin.raw = Chars("12.5") /\ cin.fmt = Chars("12.5") /\ RawPathFails
    /\ cout = SomeVal("int64", Chars("125"))

\* The rows of the sheet read that hold a cell.
SheetRows == {p[2] : p \in DOMAIN file.sheets[SheetIndex(file, sheet)].cells}

\* The first data row with content in a bound column.
IsFirstDataRow(row) ==
    /\ row >= 2 /\ HasBoundContent(row)
    /\ \A q \in 2..(row - 1) : ~HasBoundContent(q)

\* C20: the row scan ends on the empty-row threshold only after a row with
\* content has been read, so blank rows directly below the header, however
\* many, do not end it and the first data row below them has its record.
C20_RowTailGap ==
    (pc = "done" /\ r >= 2) =>
        /\ consecutiveEmpty >= emptyDataRowsGap => appended # <<>>
        /\ \A row \in SheetRows : IsFirstDataRow(row) => row \in RowsWithRecord

\* C20, where it fails: the scan has ended at row 51 without a record, the
\* 50 rows below the header being blank and row 52 holding a data row.
C20_Witness ==
    /\ pc = "done" /\ err = "nil" /\ r = 51 /\ consecutiveEmpty = 50
    /\ appended = <<>> /\ dst.elems = <<>>
    /\ IsFirstDataRow(52)

\* A numeric literal without its sign.
Unsigned(s) == IF s # <<>> /\ s[1] \in {"+", "-"} THEN Tail(s) ELSE s

\* The digits and the point of a numeric literal, before its exponent.
MantissaOf(s) ==
    LET at == IndexAny(Unsigned(s), {"e", "E"})
    IN  IF at = -1 THEN Unsigned(s) ELSE SubSeq(Unsigned(s), 1, at)

\* The exponent of a numeric literal, zero when it has none.
ExponentOf(s) ==
    LET u == Unsigned(s)
        at == IndexAny(u, {"e", "E"})
        x == SubSeq(u, at + 2, Len(u))
    IN  IF at = -1 THEN 0
        ELSE IF x[1] = "-" THEN 0 - MagToInt(Tail(x), 0)
        ELSE IF x[1] = "+" THEN MagToInt(Tail(x), 0)
        ELSE MagToInt(x, 0)

\* The number of digits after the point of a numeric literal.
FractionLen(s) ==
    LET at == IndexAny(MantissaOf(s), {"."})
    IN  IF at = -1 THEN 0 ELSE Len(MantissaOf(s)) - at - 1

\* A numeric literal denotes its digits, read as one integer, divided by
\* ten to the power PlacesOf.
PlacesOf(s) == FractionLen(s) - ExponentOf(s)

DigitsOf(s) == Filter(MantissaOf(s), DigitSet)

\* The numeric literal s denotes an exact integer: the digits that come
\* after the point once the exponent is applied are all zero.
IsWhole(s) ==
    \A i \in 1..Len(DigitsOf(s)) :
        i > Len(DigitsOf(s)) - PlacesOf(s) => DigitsOf(s)[i] = "0"

\* The decimal numeral of the integer the numeric literal s denotes: digits
\* without a leading zero, a minus sign for a negative integer only.
WholeOf(s) ==
    LET d == DigitsOf(s)
        k == PlacesOf(s)
        mag == StripZeros(IF k <= 0 THEN d \o Repeat("0", 0 - k)
                          ELSE IF k >= Len(d) THEN Zero
                          ELSE SubSeq(d, 1, Len(d) - k))
    IN  IF s[1] = "-" /\ mag # Zero THEN <<"-">> \o mag ELSE mag

\* What the decision order of the claim gives for a raw and a formatted
\* text, surrounding white space aside.
OrderedText(raw, formatted) ==
    LET rw == TrimSpace(raw)
        fm == TrimSpace(formatted)
    IN  IF isNumericLike(rw) /\ IsWhole(rw) THEN WholeOf(rw)
        ELSE IF isNumericLike(rw) THEN rw
        ELSE IF isNumericLike(fm) /\ IsWhole(fm) THEN WholeOf(fm)
        ELSE formatted

\* C21: the conversion for a string field always succeeds, and unless the
\* formatted text begins with '+' or is a '0' followed only by digits the
\* field receives the decimal numeral of the raw text when that is
\* numeric-like and denotes an exact integer, else the trimmed raw text when
\* that is numeric-like, else the decimal numeral of the formatted text when
\* that is numeric-like and exact, else the formatted text unchanged.
C21_StringDecisionOrder ==
    (pc = "converted" /\ cin.kind = "String") =>
        /\ cout.ok
        /\ ~(BeginsWithPlus(TrimSpace(cin.fmt)) \/ ZeroThenDigits(TrimSpace(cin.fmt))) =>
               cout = SomeVal("string", OrderedText(cin.raw, cin.fmt))

\* C21, its case: the text cell -0.0, numeric-like and the exact integer
\* zero, has been converted for a string field.
C21_Witness ==
    /\ pc = "converted" /\ cin.kind = "String" /\ cin.ctype = "SharedString"
    /\ cin.raw = Chars("-0.0") /\ cin.fmt = Chars("-0.0")
    /\ cout.ok

\* The bound fields that are timestamps.
TimeFields == {k \in 1..Len(fields) : fields[k].kind = "Struct"}

\* The raw values of the numeric cells that are date serials: 45306 is
\* 2024-01-15 counted from 1900, and 2028-01-16 counted from 1904.
DateSerials == {Chars("45306"), Chars("45306.5")}

\* The timestamp of a date serial under the epoch flag, its wall clock
\* read in the declared location when there is one, else in UTC.
SerialTime(raw, epoch1904, loc) ==
    At(IF epoch1904 THEN 2028 ELSE 2024, 1, IF epoch1904 THEN 16 ELSE 15,
       IF raw = Chars("45306.5") THEN 12 ELSE 0, 0, 0, IF loc = NoLoc THEN UTC ELSE loc)

\* The timestamp field k of the i-th record appended is what its cell's
\* numeric storage gives: the date of the serial if the raw value is one, and
\* only otherwise the formatted text parsed (the zero value when that fails).
SerialFirst(i, k) ==
    LET name == GetCellName(fields[k].colIdx, appended[i])
        raw == GetCellValueRaw(file, sheet, name)
        parsed == parseTime(GetCellValue(file, sheet, name), fields[k].timeFormat,
                            fields[k].loc)
    IN  Bound(RecordOf(i), k) =
            IF raw \in DateSerials
            THEN SerialTime(raw, file.date1904 = "true", fields[k].loc)
            ELSE IF parsed.ok THEN Val("time.Time", parsed.val)
            ELSE ZeroField(StructType(typ)[fields[k].fieldIdx])

\* C22: the epoch flag of the call is the workbook's (false without workbook
\* properties) from the binding of the fields on; every timestamp field read
\* from a cell of storage type number whose raw value is a date serial holds
\* the date of that serial under this flag, in the declared location when
\* there is one, whatever the formatted text and the time format; the
\* formatted text is parsed only when the raw value is no date serial.
C22_NumericTimestampFirst ==
    pc \in {"rows", "done"} =>
        /\ use1904 = (file.date1904 = "true")
        /\ \A i \in 1..Len(appended) : \A k \in TimeFields :
               GetCellType(file, sheet, GetCellName(fields[k].colIdx, appended[i])) = "Number"
                   => SerialFirst(i, k)

\* C22, its case: Unmarshal has returned from a workbook of the 1904 date
\* system; the cell 45306.5 that shows 2024-01-17 10:30, a text the declared
\* time format parses, was read as noon of 2028-01-16 in the declared
\* location, the next row's serial under the same flag, and the negative
\* number of the row after from its formatted text.
C22_Witness ==
    /\ pc = "done" /\ err = "nil" /\ typ = "event" /\ file.date1904 = "true"
    /\ Len(appended) = 4 /\ use1904
    /\ GetCellValueRaw(file, sheet, GetCellName(1, 2)) = Chars("45306.5")
    /\ RecordOf(1)[2] = At(2028, 1, 16, 12, 0, 0, Kyiv)
    /\ RecordOf(2)[2] = At(2028, 1, 16, 0, 0, 0, Kyiv)
    /\ RecordOf(3)[2] = At(2024, 1, 15, 0, 0, 0, Kyiv)

\* C23: in a record appended, a bound field whose cell is blank in both raw
\* and formatted text is nil if it is a pointer field and holds the zero
\* value of its type if it is a value field, whatever the conversion of the
\* blank texts would give; a pointer field is non-nil only if its cell is
\* not blank and converts.
C23_BlankCellInRow ==
    pc \in {"rows", "done"} =>
        \A i \in 1..Len(appended) : \A k \in 1..Len(fields) :
            /\ IsBlank(k, appended[i]) =>
                   Bound(RecordOf(i), k) =
                       IF fields[k].isPtr THEN NilPtr
                       ELSE ZeroOfType(fields[k].kind, fields[k].typ)
            /\ (fields[k].isPtr /\ Bound(RecordOf(i), k) # NilPtr) =>
                   ~IsBlank(k, appended[i]) /\ Converted(k, appended[i]).ok

\* C23, its case: Unmarshal has returned; in one record a pointer field of
\* kind string, whose blank cell converts to the empty string, is nil, and
\* another pointer field of that record is set from its cell.
C23_Witness ==
    /\ pc = "done" /\ err = "nil"
    /\ \E i \in 1..Len(appended) : \E k, j \in 1..Len(fields) :
          /\ fields[k].isPtr /\ fields[k].kind = "String" /\ IsBlank(k, appended[i])
          /\ Converted(k, appended[i]).ok
          /\ Bound(RecordOf(i), k) = NilPtr
          /\ fields[j].isPtr /\ Bound(RecordOf(i), j) # NilPtr

\* The numbers the records of the type priced are to put in their cells,
\* field by field: Cents divided by 100 and rounded to whole units (halves
\* away from zero), Pence divided by 100, Rate rounded to hundredths, Count
\* unchanged, Share divided by 4.
PricedCells(rec) ==
    IF rec[1] = I64("1234")
    THEN <<Chars("12"), Chars("2.5"), Chars("0.13"), Chars("7"), Chars("1.5")>>
    ELSE <<Chars("-13"), Chars("-0.07"), Chars("2.5"), Chars("0"), Chars("0.75")>>

\* The raw value of the cell Write stored for field j of the i-th record.
WrittenRaw(i, j) == GetCellValueRaw(file, wsheet, GetCellName(j - 1, i + 1))

\* C24: Write stores for every numeric field that declares divide or round
\* (int64, int32, float32, *float64) the value divided by d and then rounded
\* with r, and for a numeric field without these tags the value unchanged.
C24_DivideRoundAllNumeric ==
    (wout = "nil" /\ typ = "priced") =>
        \A i \in 1..Len(wdata.elems) : \A j \in 1..5 :
            WrittenRaw(i, j) = PricedCells(wdata.elems[i])[j]

\* C24, where it fails: Write has returned nil; the int64 field 1234 with
\* divide:100 and round:1 is stored as 12, the int32 field 250 with
\* divide:100 as 250 and the float32 field 6 with divide:4 as 6.
C24_Witness ==
    /\ wout = "nil" /\ typ = "priced" /\ Len(wdata.elems) = 1
    /\ wdata.elems[1][1] = I64("1234") /\ WrittenRaw(1, 1) = Chars("12")
    /\ WrittenRaw(1, 2) = Chars("250")
    /\ WrittenRaw(1, 3) = Chars("0.13")
    /\ WrittenRaw(1, 5) = Chars("6")

\* The text holds a digit.
HasDigit(s) == \E i \in 1..Len(s) : s[i] \in DigitSet

\* The text is a decimal number: an optional minus sign and digits with at
\* most one point.
IsDecimal(s) ==
    /\ isNumericLike(s) /\ s[1] # "+"
    /\ \A i \in 1..Len(s) : s[i] \notin {"e", "E"}

\* The float a decimal number or a numeric literal denotes.
DecimalValue(s) == NormFloat(s[1] = "-", DigitsOf(s), 0 - PlacesOf(s))

\* The float field is read from the raw value: the storage type is number
\* and the raw value is a numeric literal.
FromRawNumber == cin.ctype = "Number" /\ isNumericLike(TrimSpace(cin.raw))

\* The formatted text, trimmed, with every ',' discarded.
CommasDiscarded == ReplaceAll(TrimSpace(cin.fmt), ",", <<>>)

\* The formatted text, trimmed, with ',' as the decimal point.
CommaAsPoint == ReplaceAll(TrimSpace(cin.fmt), ",", <<".">>)

\* C25: a float field of a cell of storage type number whose raw value
\* parses holds the number of the raw value; otherwise it is read from the
\* formatted text: with both ',' and '.' in it every ',' is discarded, with
\* ',' only the ',' is the decimal point, a plain decimal number is itself,
\* and a text without a digit fails.
C25_FloatSeparators ==
    (pc = "converted" /\ cin.kind \in FloatKinds) =>
        /\ FromRawNumber =>
               cout = SomeVal(TypeOfKind(cin.kind), DecimalValue(TrimSpace(cin.raw)))
        /\ (~FromRawNumber /\ Contains(cin.fmt, ",") /\ Contains(cin.fmt, ".")
            /\ IsDecimal(CommasDiscarded)) =>
               cout = SomeVal(TypeOfKind(cin.kind), DecimalValue(CommasDiscarded))
        /\ (~FromRawNumber /\ ~Contains(cin.fmt, ".") /\ IsDecimal(CommaAsPoint)) =>
               cout = SomeVal(TypeOfKind(cin.kind), DecimalValue(CommaAsPoint))
        /\ (~FromRawNumber /\ IsDecimal(TrimSpace(cin.fmt))) =>
               cout = SomeVal(TypeOfKind(cin.kind), DecimalValue(TrimSpace(cin.fmt)))
        /\ (~FromRawNumber /\ ~HasDigit(cin.fmt)) => cout = NoVal

\* C25, its case: the text cell 1,5 has been converted for a float64 field
\* to 1.5.
C25_Witness ==
    /\ pc = "converted" /\ cin.kind = "Float64" /\ cin.ctype = "SharedString"
    /\ cin.fmt = Chars("1,5")
    /\ cout = SomeVal("float64", NormFloat(FALSE, Chars("15"), -1))

\* The column the codec reads for a header or data cell of column index i,
\* when it accepts the name.
ColumnRead(i) == ColumnNumber(getColumnLetter(i), 0) - 1

\* The cells about to be read lie in header columns 0..1023 of row 1 and in
\* data rows 2..99999 of bound columns 0..1023.
WithinScanBounds ==
    /\ pc = "header" =>
           /\ c \in 0..1023
           /\ ValidCellName(GetCellName(c, 1)) => ColumnRead(c) \in 0..1023
    /\ pc = "rows" =>
           /\ r \in 2..99999
           /\ \A k \in 1..Len(fields) :
                  /\ fields[k].colIdx \in 0..1023
                  /\ ValidCellName(GetCellName(fields[k].colIdx, r))
                         => ColumnRead(fields[k].colIdx) \in 0..1023

\* Unmarshal has returned, nil or an error.
Returned == pc \in {"done", "error"}

\* C26: every cell Unmarshal reads lies within the scan bounds, and the
\* call comes to its end, also on a sheet that is entirely blank, that has
\* no bound field, or that has data in every row.
C26_ScanTerminates == []WithinScanBounds /\ <>Returned

\* C26, its case: on a sheet with data in every row the row loop has read
\* row 99999 and Unmarshal has returned nil.
C26_Witness ==
    /\ pc = "done" /\ err = "nil" /\ r = 100000 /\ consecutiveEmpty = 0
    /\ Len(fields) = 1
    /\ file.sheets[1].fill.cols = {0}

\* The greatest magnitude of a negative and of a non-negative value of an
\* integer kind (int and uint are 64 bits wide).
LeastOf(kind) ==
    CASE kind = "Int8" -> Chars("128") [] kind = "Int16" -> Chars("32768")
      [] kind = "Int32" -> Chars("2147483648")
      [] kind \in {"Int", "Int64"} -> Chars("9223372036854775808")
      [] OTHER -> Zero

GreatestOf(kind) ==
    CASE kind = "Int8" -> Chars("127") [] kind = "Int16" -> Chars("32767")
      [] kind = "Int32" -> Chars("2147483647")
      [] kind \in {"Int", "Int64"} -> Chars("9223372036854775807")
      [] kind = "Uint8" -> Chars("255") [] kind = "Uint16" -> Chars("65535")
      [] kind = "Uint32" -> Chars("4294967295")
      [] OTHER -> Chars("18446744073709551615")

\* The integer of numeral n is a value of the kind.
InRange(n, kind) ==
    IF n[1] = "-" THEN MagLE(Tail(n), LeastOf(kind)) ELSE MagLE(n, GreatestOf(kind))

\* C27: for a field of an integer kind and a raw text that denotes the
\* exact integer n, the conversion gives exactly n or fails, and it fails
\* when n is no value of the kind.
C27_IntegerNeverWrong ==
    (/\ pc = "converted" /\ cin.kind \in IntKinds \cup UintKinds
     /\ isNumericLike(TrimSpace(cin.raw)) /\ IsWhole(TrimSpace(cin.raw))) =>
        /\ cout \in {NoVal, SomeVal(TypeOfKind(cin.kind), WholeOf(TrimSpace(cin.raw)))}
        /\ ~InRange(WholeOf(TrimSpace(cin.raw)), cin.kind) => cout = NoVal

\* C27, where it fails: the numeric cell 300 has been converted for an int8
\* field to 44.
C27_Witness ==
    /\ pc = "converted" /\ cin.kind = "Int8" /\ cin.ctype = "Number"
    /\ cin.raw = Chars("300")
    /\ cout = SomeVal("int8", Chars("44"))

\* The sheet is in the workbook, with the same name and the same content.
HasSheet(f, sh) == \E j \in 1..Len(f.sheets) : f.sheets[j] = sh

\* C28: a Write that returns changes the sheet it names and no other:
\* every other sheet the workbook had before the call, Sheet1 included, is
\* in the workbook after it, unchanged.
C28_OnlyNamedSheet ==
    [][(pc = "write" /\ wout' \in {"nil", "error"}) =>
           \A i \in 1..Len(file.sheets) :
               file.sheets[i].name # wsheet' => HasSheet(file', file.sheets[i])]_vars

\* C28, where it fails: Write of one record to the sheet Data of a workbook
\* with the sheets Sheet1 and Other, both holding data, has returned nil,
\* and the workbook holds the sheets Other and Data only.
C28_Witness ==
    /\ wout = "nil" /\ wsheet = "Data" /\ Len(wdata.elems) = 1
    /\ GetSheetList(file) = <<"Other", "Data">>
    /\ file.sheets[1] = TwoSheets.sheets[2]

\* C29: Unmarshal changes its destination only by appending: each change
\* adds the record of the row just read after the elements held before,
\* which stay as they were; a call that found no header or no row with
\* content has appended nothing and returns nil.
C29_AppendOnly ==
    /\ [][dst' # dst =>
              /\ pc = "rows"
              /\ dst' = [dst EXCEPT !.elems = dst'.elems]
              /\ Len(dst'.elems) = Len(dst.elems) + 1
              /\ SubSeq(dst'.elems, 1, Len(dst.elems)) = dst.elems
              /\ appended' = Append(appended, r)]_vars
    /\ [](pc = "done" => err = "nil" /\ Len(dst.elems) >= Len(appended))
    /\ []((pc = "done" /\ (DOMAIN headerMap = {} \/ ~\E row \in ScannedRows :
                                                        HasBoundContent(row)))
              => appended = <<>>)

\* C29, its case: Unmarshal into a destination that held an element has
\* returned nil; the element is still the first one, and the records of the
\* sheet follow it.
C29_Witness ==
    /\ pc = "done" /\ err = "nil" /\ Len(appended) >= 2
    /\ Len(dst.elems) = Len(UsedDest.elems) + Len(appended)
    /\ SubSeq(dst.elems, 1, Len(UsedDest.elems)) = UsedDest.elems
    /\ UsedDest.elems # <<>>

\* A canonical integer numeral: digits without a leading zero, or the digit
\* 0 alone, after an optional minus sign that is not followed by 0 alone.
Canonical(t) ==
    /\ isAllDigits(Unsigned(t))
    /\ t[1] # "+"
    /\ Len(Unsigned(t)) > 1 => Unsigned(t)[1] # "0"
    /\ t # Chars("-0")

\* C30: for a numeric-like text, toIntegerDecimalString succeeds exactly
\* when the text denotes an exact integer; its result is then the canonical
\* numeral of that integer (never -0, no point, no exponent), and the
\* function returns that result unchanged when applied to it.
C30_ExactAndCanonical ==
    (pc = "integer" /\ isNumericLike(cin.raw)) =>
        /\ cout.ok <=> IsWhole(cin.raw)
        /\ cout.ok =>
               /\ Canonical(cout.val.v)
               /\ cout.val.v = WholeOf(cin.raw)
               /\ toIntegerDecimalString(cout.val.v) = [ok |-> TRUE, val |-> cout.val.v]

\* C30, where it fails: toIntegerDecimalString of -0.0 has returned -0.
C30_Witness ==
    /\ pc = "integer" /\ cin.raw = Chars("-0.0")
    /\ cout = SomeVal("string", Chars("-0"))

====
